---- MODULE Spec2Model ----
(***************************************************************************)
(* Model of the EcoNFC air-quality node (firmware embedded in src/app.js,  *)
(* lines 1596-3085) and of the dashboard helpers it talks to.              *)
(*                                                                         *)
(* C `float` values are modelled as decimal floating-point numbers with a  *)
(* six-digit mantissa (float32 carries about seven), truncating rounding,  *)
(* and the IEEE special values NaN and +/-infinity:                        *)
(*     [k |-> "num", m |-> mantissa, e |-> exponent]  is  m * 10^e         *)
(* with m = 0 (and e = 0) for zero and 100000 <= |m| <= 999999 otherwise.  *)
(***************************************************************************)
EXTENDS Integers, Sequences, FiniteSets, TLC

\* ---------------------------------------------------------------------------
\* Floating-point arithmetic (the C operators + - * / < <= > on float)
\* ---------------------------------------------------------------------------

\* Largest and smallest decimal exponent of a normalised mantissa: float32
\* overflows to infinity above about 3.4e38 and underflows to 0 below 1e-45.
FExpMax == 33
FExpMin == -50

NaN == [k |-> "nan", m |-> 0, e |-> 0]
PosInf == [k |-> "inf", m |-> 1, e |-> 0]
NegInf == [k |-> "inf", m |-> -1, e |-> 0]
Zero == [k |-> "num", m |-> 0, e |-> 0]

Abs(n) == IF n < 0 THEN -n ELSE n

Sgn(n) == IF n > 0 THEN 1 ELSE IF n < 0 THEN -1 ELSE 0

RECURSIVE Pow10(_)
Pow10(n) == IF n <= 0 THEN 1 ELSE 10 * Pow10(n - 1)

\* Normalise magnitude a >= 0 with exponent e to six digits (truncating).
RECURSIVE NormAbs(_, _)
NormAbs(a, e) ==
    IF a = 0 THEN <<0, 0>>
    ELSE IF a >= 1000000 THEN NormAbs(a \div 10, e + 1)
    ELSE IF a < 100000 THEN NormAbs(a * 10, e - 1)
    ELSE <<a, e>>

\* The float of sign s and normalised magnitude n = <<mantissa, exponent>>,
\* with overflow to infinity and underflow to zero.
Pack(s, n) ==
    IF n[1] = 0 THEN Zero
    ELSE IF n[2] > FExpMax THEN [k |-> "inf", m |-> s, e |-> 0]
    ELSE IF n[2] < FExpMin THEN Zero
    ELSE [k |-> "num", m |-> s * n[1], e |-> n[2]]

\* The float nearest (towards zero) to m * 10^e.
Norm(m, e) == Pack(Sgn(m), NormAbs(Abs(m), e))

FromInt(n) == Norm(n, 0)

IsNaN(x) == x.k = "nan"

IsInf(x) == x.k = "inf"

IsNum(x) == x.k = "num"

FNeg(x) == IF IsNaN(x) THEN NaN ELSE [x EXCEPT !.m = -x.m]

\* Magnitude order of two non-NaN values of the same non-zero sign.
MagLess(x, y) ==
    IF IsInf(x) THEN FALSE
    ELSE IF IsInf(y) THEN TRUE
    ELSE x.e < y.e \/ (x.e = y.e /\ Abs(x.m) < Abs(y.m))

\* x < y; every comparison with NaN is false.
FLt(x, y) ==
    IF IsNaN(x) \/ IsNaN(y) THEN FALSE
    ELSE IF Sgn(x.m) # Sgn(y.m) THEN Sgn(x.m) < Sgn(y.m)
    ELSE IF Sgn(x.m) = 0 THEN FALSE
    ELSE IF Sgn(x.m) = 1 THEN MagLess(x, y)
    ELSE MagLess(y, x)

FLe(x, y) == IF IsNaN(x) \/ IsNaN(y) THEN FALSE ELSE ~FLt(y, x)

FGt(x, y) == FLt(y, x)

FGe(x, y) == FLe(y, x)

\* big + small for finite non-zero operands with big.e >= small.e: small is
\* aligned to the exponent of big (digits below its last place are dropped).
AddAligned(big, small) ==
    Norm(big.m + (IF big.e - small.e > 6 THEN 0
                  ELSE Sgn(small.m)
                       * (Abs(small.m) \div Pow10(big.e - small.e))),
         big.e)

\* x + y
FAdd(x, y) ==
    IF IsNaN(x) \/ IsNaN(y) THEN NaN
    ELSE IF IsInf(x) /\ IsInf(y) THEN (IF x.m = y.m THEN x ELSE NaN)
    ELSE IF IsInf(x) THEN x
    ELSE IF IsInf(y) THEN y
    ELSE IF x.m = 0 THEN y
    ELSE IF y.m = 0 THEN x
    ELSE IF x.e >= y.e THEN AddAligned(x, y)
    ELSE AddAligned(y, x)

FSub(x, y) == FAdd(x, FNeg(y))

\* floor(a * b / 100000) for six-digit a, b, without leaving 32 bits
MulMant(a, b) ==
    ((a \div 1000) * (b \div 1000)) * 10
    + ((((a \div 1000) * (b % 1000) + (a % 1000) * (b \div 1000)) * 1000
        + (a % 1000) * (b % 1000)) \div 100000)

\* x * y: the twelve-digit product of the mantissas, cut to at most seven
\* digits, then normalised.
FMul(x, y) ==
    IF IsNaN(x) \/ IsNaN(y) THEN NaN
    ELSE IF IsInf(x) \/ IsInf(y)
         THEN (IF x.m = 0 \/ y.m = 0 THEN NaN
               ELSE [k |-> "inf", m |-> Sgn(x.m) * Sgn(y.m), e |-> 0])
    ELSE IF x.m = 0 \/ y.m = 0 THEN Zero
    ELSE Norm(Sgn(x.m) * Sgn(y.m) * MulMant(Abs(x.m), Abs(y.m)),
              x.e + y.e + 5)

\* floor(a * 1000000 / b) for six-digit a, b, by long division
DivMant(a, b) ==
    ((a * 1000) \div b) * 1000 + (((a * 1000) % b) * 1000) \div b

\* x / y
FDiv(x, y) ==
    IF IsNaN(x) \/ IsNaN(y) THEN NaN
    ELSE IF IsInf(x) THEN (IF IsInf(y) THEN NaN
                           ELSE [k |-> "inf",
                                 m |-> x.m * (IF y.m < 0 THEN -1 ELSE 1),
                                 e |-> 0])
    ELSE IF IsInf(y) THEN Zero
    ELSE IF y.m = 0 THEN (IF x.m = 0 THEN NaN
                          ELSE [k |-> "inf", m |-> Sgn(x.m), e |-> 0])
    ELSE IF x.m = 0 THEN Zero
    ELSE Norm(Sgn(x.m) * Sgn(y.m) * DivMant(Abs(x.m), Abs(y.m)),
              x.e - y.e - 6)

\* round(x): nearest integer, halves away from zero, as a float.
FRound(x) ==
    IF ~IsNum(x) THEN x
    ELSE IF x.e >= 0 THEN x
    ELSE IF x.e < -7 THEN Zero
    ELSE LET p == Pow10(-x.e)
         IN  FromInt(Sgn(x.m) * ((Abs(x.m) + p \div 2) \div p))

\* ---------------------------------------------------------------------------
\* pow(x, y) of the C library, computed as exp(y * ln x) in fixed point with
\* five decimals (the integer n stands for n / 100000)
\* ---------------------------------------------------------------------------

FixOne == 100000

\* ln 2 and ln 10 in fixed point
FixLn2 == 69315
FixLn10 == 230259

\* floor(x * y / 100000) for fixed-point x, y >= 0, without leaving 32 bits
FixMulMag(x, y) ==
    ((x \div 1000) * (y \div 1000)) * 10
    + ((((x \div 1000) * (y % 1000) + (x % 1000) * (y \div 1000)) * 10
        + ((x % 1000) * (y % 1000)) \div 100) \div 1000)

\* a * b in fixed point
FixMul(a, b) == Sgn(a) * Sgn(b) * FixMulMag(Abs(a), Abs(b))

\* floor(a * 100000 / b) for 0 <= a < b < 300000
FixDiv(a, b) == ((a * 1000) \div b) * 100 + (((a * 1000) % b) * 100) \div b

\* The value of a float as a fixed-point number (for the exponent of pow).
ToFix(x) ==
    IF x.e + 5 >= 0 THEN x.m * Pow10(x.e + 5)
    ELSE Sgn(x.m) * (Abs(x.m) \div Pow10(-(x.e + 5)))

\* Halve y (fixed point, y >= 1) until it lies in [1, 2): <<halvings, y>>
RECURSIVE Halve(_, _)
Halve(j, y) == IF y >= 2 * FixOne THEN Halve(j + 1, y \div 2) ELSE <<j, y>>

\* 2 * atanh z by its series 2 * (z + z^3/3 + z^5/5 + z^7/7 + z^9/9), for
\* z2 = z * z
AtanhSeries(z, z2) ==
    2 * (z + FixMul(FixMul(z, z2),
                    FixOne \div 3
                    + FixMul(z2, FixOne \div 5
                                 + FixMul(z2, FixOne \div 7
                                              + FixMul(z2, FixOne \div 9)))))

Atanh2(z) == AtanhSeries(z, FixMul(z, z))

\* ln y for y in [1, 2): 2 * atanh((y - 1) / (y + 1))
FixLnUnit(y) == Atanh2(FixDiv(y - FixOne, y + FixOne))

\* ln of the mantissa halved h[1] times to h[2], with decimal exponent e
LnParts(h, e) == h[1] * FixLn2 + FixLnUnit(h[2]) + e * FixLn10 + 5 * FixLn10

\* ln x for a finite x > 0
FixLn(x) == LnParts(Halve(0, x.m), x.e)

\* The Taylor series of exp s from its k-th term down (Horner's scheme)
RECURSIVE ExpSeries(_, _, _)
ExpSeries(s, k, acc) ==
    IF k = 0 THEN acc
    ELSE ExpSeries(s, k - 1, FixOne + FixMul(s, acc) \div k)

\* exp s for s in [0, ln 2), eight terms
FixExpUnit(s) == ExpSeries(s, 8, FixOne)

\* 10^k * 2^j * exp(s) as a float, for r = j * ln 2 + s in [0, ln 10)
ExpParts(k, r) ==
    Norm(FixExpUnit(r % FixLn2)
         * (IF r \div FixLn2 = 0 THEN 1 ELSE IF r \div FixLn2 = 1 THEN 2
            ELSE IF r \div FixLn2 = 2 THEN 4 ELSE 8),
         k - 5)

\* exp y as a float: y = k * ln 10 + r
FExpFix(y) == ExpParts(y \div FixLn10, y % FixLn10)

\* pow(x, y) for a finite exponent y # 0.  The firmware only calls it with a
\* base that passed the `ratio <= 0` test, so a base below zero is not NaN-
\* checked by the caller; the C library returns NaN for it.
Pow(x, y) ==
    IF IsNaN(x) THEN NaN
    ELSE IF IsInf(x) THEN (IF x.m < 0 THEN NaN
                           ELSE IF y.m < 0 THEN Zero ELSE PosInf)
    ELSE IF x.m < 0 THEN NaN
    ELSE IF x.m = 0 THEN (IF y.m < 0 THEN PosInf ELSE Zero)
    ELSE FExpFix(FixMul(ToFix(y), FixLn(x)))

\* ---------------------------------------------------------------------------
\* Firmware constants (src/app.js 1616-1642, 1670-1676, 1704)
\* ---------------------------------------------------------------------------

EEPROM_SIZE == 1024
ADDR_RO_MQ135 == 0
ADDR_RO_MQ7 == 4
ADDR_RO_MQ9 == 8
ADDR_CALIB_FLAG == 12
CALIB_MAGIC == 171
ADDR_CONFIG_FLAG == 16
CONFIG_MAGIC == 205
ADDR_CONFIG_START == 20
MAX_CONFIG_SIZE == 1000

RL_VALUE == Norm(10, 0)
RO_CLEAN_AIR_FACTOR == Norm(983, -2)
CALIBRATION_SAMPLES == 50

MQ135_A == Norm(116602, -3)
MQ135_B == Norm(-276903, -5)
MQ7_A == Norm(990418, -4)
MQ7_B == Norm(-1518, -3)
MQ9_A == Norm(10005, -1)
MQ9_B == Norm(-2186, -3)

MIN_PPM_THRESHOLD == Norm(1, -1)

\* the ESP32 converter's largest code, the literal 4095 of validasiADC
ADC_MAX == 4095

\* Ro_MQ135 = Ro_MQ7 = Ro_MQ9 = 10.0 at start-up
RoDefault == Norm(10, 0)

\* lastValidTemp = 25.0, lastValidHumidity = 50.0 at start-up
TempDefault == Norm(25, 0)
HumDefault == Norm(50, 0)

DEFAULT_SENSOR_INTERVAL == 5000

\* ---------------------------------------------------------------------------
\* Sensor mathematics (pure functions)
\* ---------------------------------------------------------------------------

\* The replacement of Rs with `<` in place of `<=`.
RsFloorNegativeOnly(Rs) == IF FLt(Rs, Zero) THEN Norm(1, -1) ELSE Rs

\* if (Rs <= 0) Rs = 0.1;
RsFloor(Rs) == IF FLe(Rs, Zero) THEN Norm(1, -1) ELSE Rs

\* The voltage divider of hitungRs: voltage = (adcValue / 4095.0) * 3.3 and
\* Rs = ((3.3 * RL_VALUE) / voltage) - RL_VALUE
DividerRs(adcValue) ==
    FSub(FDiv(FMul(Norm(33, -1), RL_VALUE),
              FMul(FDiv(FromInt(adcValue), FromInt(ADC_MAX)), Norm(33, -1))),
         RL_VALUE)

\* hitungRs without its first statement.
hitungRsUnguarded(adcValue) == RsFloor(DividerRs(adcValue))

\* float hitungRs(int adcValue)
hitungRs(adcValue) ==
    IF adcValue = 0 THEN Norm(999999, 0) ELSE RsFloor(DividerRs(adcValue))

\* The two clamps at the end of hitungKonsentrasi.
ClampPpm(ppm) ==
    LET floored == IF FLt(ppm, MIN_PPM_THRESHOLD) THEN MIN_PPM_THRESHOLD
                   ELSE ppm
    IN  IF FGt(floored, FromInt(10000)) THEN FromInt(10000) ELSE floored

\* hitungKonsentrasi with the two clamps applied to whatever the checks
\* produced, the sentinel included.
hitungKonsentrasiClampsAll(Rs, Ro, a, b) ==
    ClampPpm(IF FLe(Ro, Zero) THEN FromInt(-1)
             ELSE IF FLe(FDiv(Rs, Ro), Zero) THEN FromInt(-1)
             ELSE FMul(a, Pow(FDiv(Rs, Ro), b)))

\* float hitungKonsentrasi(float Rs, float Ro, float a, float b, String name)
hitungKonsentrasi(Rs, Ro, a, b) ==
    IF FLe(Ro, Zero) THEN FromInt(-1)
    ELSE LET ratio == FDiv(Rs, Ro)
         IN  IF FLe(ratio, Zero) THEN FromInt(-1)
             ELSE ClampPpm(FMul(a, Pow(ratio, b)))

\* return aqi > 500 ? 500 : aqi;
CapAQI(aqi) == IF FGt(aqi, FromInt(500)) THEN FromInt(500) ELSE aqi

\* hitungAQI without the cap of its return statement.
hitungAQIUncapped(ppm_MQ135, ppm_MQ7, ppm_MQ9) ==
    LET aqi_MQ135 == FMul(ppm_MQ135, Norm(1, 0))
        aqi_MQ7 == FMul(ppm_MQ7, Norm(2, 0))
        aqi_MQ9 == FMul(ppm_MQ9, Norm(15, -1))
    IN  FAdd(FAdd(FMul(aqi_MQ135, Norm(4, -1)), FMul(aqi_MQ7, Norm(3, -1))),
             FMul(aqi_MQ9, Norm(3, -1)))

\* float hitungAQI(float ppm_MQ135, float ppm_MQ7, float ppm_MQ9)
hitungAQI(ppm_MQ135, ppm_MQ7, ppm_MQ9) ==
    LET aqi_MQ135 == FMul(ppm_MQ135, Norm(1, 0))
        aqi_MQ7 == FMul(ppm_MQ7, Norm(2, 0))
        aqi_MQ9 == FMul(ppm_MQ9, Norm(15, -1))
    IN  CapAQI(FAdd(FAdd(FMul(aqi_MQ135, Norm(4, -1)),
                         FMul(aqi_MQ7, Norm(3, -1))),
                    FMul(aqi_MQ9, Norm(3, -1))))

\* getStatusUdara with `<=` in place of `<`: a threshold falls in the lower
\* tier.
getStatusUdaraInclusive(aqi) ==
    IF FLe(aqi, FromInt(20)) THEN "Baik"
    ELSE IF FLe(aqi, FromInt(50)) THEN "Sedang"
    ELSE IF FLe(aqi, FromInt(100)) THEN "Tidak Sehat"
    ELSE IF FLe(aqi, FromInt(200)) THEN "Sangat Tidak Sehat"
    ELSE "Berbahaya"

\* String getStatusUdara(float aqi)   (firmware)
getStatusUdara(aqi) ==
    IF FLt(aqi, FromInt(20)) THEN "Baik"
    ELSE IF FLt(aqi, FromInt(50)) THEN "Sedang"
    ELSE IF FLt(aqi, FromInt(100)) THEN "Tidak Sehat"
    ELSE IF FLt(aqi, FromInt(200)) THEN "Sangat Tidak Sehat"
    ELSE "Berbahaya"

\* utils.getAqiStatus(aqi).text   (dashboard)
getAqiStatus(aqi) ==
    IF FLt(aqi, FromInt(20)) THEN "Baik"
    ELSE IF FLt(aqi, FromInt(50)) THEN "Sedang"
    ELSE IF FLt(aqi, FromInt(100)) THEN "Tidak Sehat"
    ELSE IF FLt(aqi, FromInt(200)) THEN "Sangat Tidak Sehat"
    ELSE "Berbahaya"

\* validasiADC that also rejects the near-zero values it only logs.
validasiADCRejectsLow(adcValue) == ~(adcValue > ADC_MAX \/ adcValue < 5)

\* bool validasiADC(int adcValue, String sensorName)
validasiADC(adcValue) == ~(adcValue > ADC_MAX)

\* bacaDHT without its range test.
bacaDHTUnranged(temp, humidity) == ~(IsNaN(temp) \/ IsNaN(humidity))

\* The tests of bacaDHT on what the DHT22 driver returned.
bacaDHT(temp, humidity) ==
    IF IsNaN(temp) \/ IsNaN(humidity) THEN FALSE
    ELSE IF FLt(temp, FromInt(-40)) \/ FGt(temp, FromInt(80))
            \/ FLt(humidity, Zero) \/ FGt(humidity, FromInt(100)) THEN FALSE
    ELSE TRUE

\* round(x * 10) / 10.0 and round(x * 1000) / 1000.0 of createSensorJSON
Round1(x) == FDiv(FRound(FMul(x, FromInt(10))), FromInt(10))

Round3(x) == FDiv(FRound(FMul(x, FromInt(1000))), FromInt(1000))

\* ---------------------------------------------------------------------------
\* EEPROM (ESP32 Arduino library: EEPROM.begin loads the stored image into a
\* RAM buffer, read/write/get/put work on the buffer, EEPROM.commit stores
\* the whole buffer).  A memory is a function from the addresses written so
\* far to cells; every other cell holds the erased byte 0xFF.  A cell is a
\* raw byte or the i-th byte of the image of a float.
\* ---------------------------------------------------------------------------

Byte(b) == [raw |-> b, f |-> Zero, i |-> -1]

FloatByte(x, n) == [raw |-> -1, f |-> x, i |-> n]

ErasedByte == 255

EepromRead(mem, a) == IF a \in DOMAIN mem THEN mem[a] ELSE Byte(ErasedByte)

\* EEPROM.write(address, value): addresses outside the buffer are ignored.
EepromWrite(mem, a, c) ==
    IF a < 0 \/ a >= EEPROM_SIZE THEN mem
    ELSE [x \in (DOMAIN mem) \cup {a} |-> IF x = a THEN c ELSE mem[x]]

\* EEPROM.put(address, float): the four bytes of the float's image.
EepromPut(mem, a, x) ==
    EepromWrite(EepromWrite(EepromWrite(EepromWrite(mem,
        a, FloatByte(x, 0)), a + 1, FloatByte(x, 1)),
        a + 2, FloatByte(x, 2)), a + 3, FloatByte(x, 3))

\* EEPROM.get(address, float): the float whose image the four cells hold.
\* Four zero bytes are 0.0; any other pattern that is not the image of one
\* stored float (four erased bytes, halves of two floats) reads as NaN, which
\* is what 0xFFFFFFFF is.
EepromGet(mem, a) ==
    LET c == [n \in 0..3 |-> EepromRead(mem, a + n)]
    IN  IF \A n \in 0..3 : c[n].i = n /\ c[n].f = c[0].f THEN c[0].f
        ELSE IF \A n \in 0..3 : c[n].raw = 0 THEN Zero
        ELSE NaN

\* ---------------------------------------------------------------------------
\* Configuration documents
\* ---------------------------------------------------------------------------

\* The fields of NFCConfig the model follows; a global NFCConfig starts with
\* empty strings and zero numbers.  `pad` is the total length of the other
\* string fields (password, topic, key, ...), which only matter for the size
\* of the serialised document.
EmptyConfig ==
    [nfcId |-> "", protocol |-> "", wifi |-> "", serverUrl |-> "",
     interval |-> 0, pad |-> 0]

\* doc[key] | fallback
Field(doc, key, fallback) == IF key \in DOMAIN doc THEN doc[key] ELSE fallback

\* The assignments of parseJSONConfig (they happen before its checks).
ConfigFromDoc(doc) ==
    [nfcId |-> Field(doc, "nfcId", "UNKNOWN"),
     protocol |-> Field(doc, "protocol", "HTTP"),
     wifi |-> Field(doc, "wifi", ""),
     serverUrl |-> Field(doc, "serverUrl", ""),
     interval |-> Field(doc, "interval", DEFAULT_SENSOR_INTERVAL),
     pad |-> Field(doc, "pad", 0)]

\* The checks of parseJSONConfig on the assigned configuration.
ConfigAccepted(cfg) ==
    cfg.protocol = "SERIAL" \/ (cfg.wifi # "" /\ cfg.serverUrl # "")

\* Strings and numbers as they appear in a serialised document: the position
\* in these tables stands for the characters.
StringTable ==
    <<"", "UNKNOWN", "dev1", "dev2", "SERIAL", "HTTP", "HTTPS", "MQTT",
      "MQTTS", "COAP", "ssid", "host">>

NumberTable == <<0, 2000, 5000>>

CodeOf(table, v) == CHOOSE n \in 1..Len(table) : table[n] = v

\* Number of bytes of the fixed part of a serialised document.
HeaderLen == 5

\* configToJSON: the document as a sequence of bytes.
configToJSON(cfg) ==
    <<CodeOf(StringTable, cfg.nfcId), CodeOf(StringTable, cfg.protocol),
      CodeOf(StringTable, cfg.wifi), CodeOf(StringTable, cfg.serverUrl),
      CodeOf(NumberTable, cfg.interval)>> \o [n \in 1..cfg.pad |-> 32]

\* deserializeJson succeeds on a byte sequence.
JsonWellFormed(text) ==
    /\ Len(text) >= HeaderLen
    /\ \A n \in 1..4 : text[n] \in 1..Len(StringTable)
    /\ text[5] \in 1..Len(NumberTable)

\* The document a well-formed byte sequence denotes.
JsonDoc(text) ==
    [nfcId |-> StringTable[text[1]], protocol |-> StringTable[text[2]],
     wifi |-> StringTable[text[3]], serverUrl |-> StringTable[text[4]],
     interval |-> NumberTable[text[5]], pad |-> Len(text) - HeaderLen]

\* saveConfigToEEPROM: the buffer after its writes (before the commit), or
\* the buffer unchanged when the document is too large.
\* for (i = n - 1; i < len; i++) EEPROM.write(a + i, text[i]): the buffer
\* after the loop, written as one function (writes outside the buffer are
\* ignored, as in EepromWrite).
WriteBytes(mem, a, text, n) ==
    LET written == { x \in (a + n - 1)..(a + Len(text) - 1) :
                        x >= 0 /\ x < EEPROM_SIZE }
    IN  [x \in (DOMAIN mem) \cup written |->
            IF x \in written THEN Byte(text[x - a + 1]) ELSE mem[x]]

\* saveConfigToEEPROM writing its document from address 0 on.
saveConfigToEEPROMFromZero(mem, cfg) ==
    WriteBytes(EepromWrite(mem, ADDR_CONFIG_FLAG, Byte(CONFIG_MAGIC)),
               ADDR_RO_MQ135, configToJSON(cfg), 1)

saveConfigToEEPROM(mem, cfg) ==
    LET configJSON == configToJSON(cfg)
        len == Len(configJSON)
    IN  IF len > MAX_CONFIG_SIZE THEN mem
        ELSE WriteBytes(
               EepromWrite(EepromWrite(EepromWrite(mem,
                   ADDR_CONFIG_FLAG, Byte(CONFIG_MAGIC)),
                   ADDR_CONFIG_START, Byte(len % 256)),
                   ADDR_CONFIG_START + 1, Byte((len \div 256) % 256)),
               ADDR_CONFIG_START + 2, configJSON, 1)

\* loadConfigFromEEPROM: [ok, cfg]; cfg is the configuration parseJSONConfig
\* assigned (also when it then rejected it), or `old` when it was not called
\* or the text did not parse.
loadConfigFromEEPROM(mem, old) ==
    LET configFlag == EepromRead(mem, ADDR_CONFIG_FLAG).raw
        len == EepromRead(mem, ADDR_CONFIG_START).raw
               + 256 * EepromRead(mem, ADDR_CONFIG_START + 1).raw
        configJSON == [n \in 1..len |->
                          EepromRead(mem, ADDR_CONFIG_START + 2 + n - 1).raw]
    IN  IF configFlag # CONFIG_MAGIC THEN [ok |-> FALSE, cfg |-> old]
        ELSE IF len = 0 \/ len > MAX_CONFIG_SIZE
             THEN [ok |-> FALSE, cfg |-> old]
        ELSE IF ~JsonWellFormed(configJSON) THEN [ok |-> FALSE, cfg |-> old]
        ELSE LET cfg == ConfigFromDoc(JsonDoc(configJSON))
             IN  [ok |-> ConfigAccepted(cfg), cfg |-> cfg]

\* ---------------------------------------------------------------------------
\* Bounds and inputs of the model
\* ---------------------------------------------------------------------------

\* Largest value of dhtErrorCount the model follows.
MaxDhtErr == 2

\* Largest number of calibration samples (out of CALIBRATION_SAMPLES) that
\* differ from the ambient reading in one run.
MaxOddSamples == 1

\* analogRead of the three channels (MQ135, MQ7, MQ9) in a sampling cycle.
AdcTriples ==
    { <<2000, 2000, 2000>>, <<0, 3, 4095>>, <<4096, 2000, 2000>>,
      <<696, 696, 696>> }

\* What the DHT22 driver returns: <<temperature, humidity>>.
DhtReads ==
    { <<Norm(305, -1), Norm(602, -1)>>, <<NaN, NaN>>,
      <<Norm(85, 0), Norm(40, 0)>> }

\* analogRead during a calibration run: the ambient reading and a disturbed
\* one.
CalibAmbient == <<1200, 900, 1500>>

CalibOdd == <<0, 4095, 2000>>

\* Configuration documents (as a tag carries them).
DocSerial == [nfcId |-> "dev1", protocol |-> "SERIAL", interval |-> 2000]

DocHttp ==
    [nfcId |-> "dev2", protocol |-> "HTTP", wifi |-> "ssid",
     serverUrl |-> "host", pad |-> 3]

DocNoWifi == [protocol |-> "MQTT", serverUrl |-> "host"]

DocCoap ==
    [nfcId |-> "dev2", protocol |-> "COAP", wifi |-> "ssid",
     serverUrl |-> "host", interval |-> 0]

\* ---------------------------------------------------------------------------
\* State
\* ---------------------------------------------------------------------------

VARIABLES
    pc,                     \* where the firmware is
    Ro_MQ135, Ro_MQ7, Ro_MQ9,
    lastValidTemp, lastValidHumidity, dhtErrorCount,
    currentConfig, configurationValid, configLoadedFromEEPROM,
    wifiConnected,
    eeprom,                 \* the EEPROM library's RAM buffer
    flash,                  \* the stored image
    calibFlag,              \* the marker byte bacaEEPROM read at boot
    stmt,                   \* next statement of tulisEEPROM (0: not in it)
    out,                    \* the locals of the running sendSensorData
    lastGood,               \* history: the calibration last stored whole
    lostAt,                 \* history: the statement of tulisEEPROM the
                            \* last power loss came before, 0 when it came
                            \* before the first or outside tulisEEPROM
    calibrated              \* history: a calibration ran since boot

vars ==
    <<pc, Ro_MQ135, Ro_MQ7, Ro_MQ9, lastValidTemp, lastValidHumidity,
      dhtErrorCount, currentConfig, configurationValid,
      configLoadedFromEEPROM, wifiConnected, eeprom, flash, calibFlag, stmt,
      out, lastGood, lostAt, calibrated>>

\* The JSON document of a reading; `built` is FALSE when none was built.
EmptyJson ==
    [built |-> FALSE, temp |-> Zero, humidity |-> Zero, aqi |-> Zero,
     status |-> "", ppm_MQ135 |-> Zero, ppm_MQ7 |-> Zero, ppm_MQ9 |-> Zero,
     adc_MQ135 |-> 0, adc_MQ7 |-> 0, adc_MQ9 |-> 0,
     ro_MQ135 |-> Zero, ro_MQ7 |-> Zero, ro_MQ9 |-> Zero,
     deviceId |-> "", interval |-> 0, protocol |-> ""]

\* Nothing emitted.
NoOut ==
    [kind |-> "none", adc |-> <<0, 0, 0>>, json |-> EmptyJson,
     sender |-> "none", success |-> FALSE]

NoCalibration == [valid |-> FALSE, r135 |-> Zero, r7 |-> Zero, r9 |-> Zero]

\* The calibration a stored image holds.
StoredCalibration(mem) ==
    IF EepromRead(mem, ADDR_CALIB_FLAG).raw = CALIB_MAGIC
    THEN [valid |-> TRUE, r135 |-> EepromGet(mem, ADDR_RO_MQ135),
          r7 |-> EepromGet(mem, ADDR_RO_MQ7),
          r9 |-> EepromGet(mem, ADDR_RO_MQ9)]
    ELSE NoCalibration

\* Stored images the device can be powered up with: a calibration and a
\* configuration written by this firmware; a valid marker over a zero, an
\* erased (NaN) and a negative payload; a payload without the marker; an
\* erased calibration area; each with a saved configuration.
Payload(a, b, c) ==
    EepromPut(EepromPut(EepromPut(<<>>, ADDR_RO_MQ135, a), ADDR_RO_MQ7, b),
              ADDR_RO_MQ9, c)

Marked(mem) == EepromWrite(mem, ADDR_CALIB_FLAG, Byte(CALIB_MAGIC))

ImageErased == <<>>

ImageCalibrated == Marked(Payload(Norm(85, -1), Norm(1225, -2), Norm(20, 0)))

ImageBad ==
    Marked(EepromPut(EepromPut(<<>>, ADDR_RO_MQ135, Zero),
                     ADDR_RO_MQ9, Norm(-4, 0)))

ImageUnmarked ==
    EepromWrite(Payload(Norm(85, -1), Zero, Norm(20, 0)),
                ADDR_CALIB_FLAG, Byte(0))

ImageSerial == saveConfigToEEPROM(ImageCalibrated, ConfigFromDoc(DocSerial))

ImageHttp == saveConfigToEEPROM(ImageBad, ConfigFromDoc(DocHttp))

ImageCoap == saveConfigToEEPROM(ImageUnmarked, ConfigFromDoc(DocCoap))

ImageNoWifi == saveConfigToEEPROM(ImageErased, ConfigFromDoc(DocNoWifi))

FlashImages == { ImageSerial, ImageHttp, ImageCoap, ImageNoWifi }

Init ==
    /\ pc = "off"
    /\ Ro_MQ135 = RoDefault
    /\ Ro_MQ7 = RoDefault
    /\ Ro_MQ9 = RoDefault
    /\ lastValidTemp = TempDefault
    /\ lastValidHumidity = HumDefault
    /\ dhtErrorCount = 0
    /\ currentConfig = EmptyConfig
    /\ configurationValid = FALSE
    /\ configLoadedFromEEPROM = FALSE
    /\ wifiConnected = FALSE
    /\ eeprom = <<>>
    /\ flash \in FlashImages
    /\ calibFlag = -1
    /\ stmt = 0
    /\ out = NoOut
    /\ lastGood = StoredCalibration(flash)
    /\ lostAt = 0
    /\ calibrated = FALSE

\* ---------------------------------------------------------------------------
\* Sampling cycle
\* ---------------------------------------------------------------------------

\* readSensorData without the replacement of a negative concentration.
SubstituteFloorNever(ppm) == ppm

\* The replacement of a negative concentration in readSensorData.
SubstituteFloor(ppm) == IF FLt(ppm, Zero) THEN MIN_PPM_THRESHOLD ELSE ppm

\* The three concentrations of a cycle, after the replacement.
Concentrations(adc) ==
    { <<SubstituteFloor(p135), SubstituteFloor(p7), SubstituteFloor(p9)>> :
        p135 \in {hitungKonsentrasi(hitungRs(adc[1]), Ro_MQ135,
                                    MQ135_A, MQ135_B)},
        p7 \in {hitungKonsentrasi(hitungRs(adc[2]), Ro_MQ7, MQ7_A, MQ7_B)},
        p9 \in {hitungKonsentrasi(hitungRs(adc[3]), Ro_MQ9, MQ9_A, MQ9_B)} }

\* The end of readSensorData: the index from the three concentrations ppm,
\* then the DHT22 read with result dht, accepted by bacaDHT or not (dhtOk).
IndexAndEnvironment(ppm, dht, dhtOk) ==
    [aqi |-> hitungAQI(ppm[1], ppm[2], ppm[3]),
     ppm_135 |-> ppm[1], ppm_7 |-> ppm[2], ppm_9 |-> ppm[3],
     temp |-> IF dhtOk THEN dht[1] ELSE lastValidTemp,
     hum |-> IF dhtOk THEN dht[2] ELSE lastValidHumidity,
     lastValidTemp |-> IF dhtOk THEN dht[1] ELSE lastValidTemp,
     lastValidHumidity |-> IF dhtOk THEN dht[2] ELSE lastValidHumidity,
     dhtErrorCount |-> IF dhtOk THEN 0 ELSE dhtErrorCount + 1]

\* readSensorData: the values it leaves in its reference parameters and in
\* lastValidTemp, lastValidHumidity and dhtErrorCount, for the raw values
\* adc and the DHT22 result dht.  When a raw value fails validasiADC it sets
\* aqi = -1 and returns before anything else is assigned.
readSensorData(adc, dht) ==
    IF ~validasiADC(adc[1]) \/ ~validasiADC(adc[2]) \/ ~validasiADC(adc[3])
    THEN [aqi |-> FromInt(-1), ppm_135 |-> Zero, ppm_7 |-> Zero,
          ppm_9 |-> Zero, temp |-> Zero, hum |-> Zero,
          lastValidTemp |-> lastValidTemp,
          lastValidHumidity |-> lastValidHumidity,
          dhtErrorCount |-> dhtErrorCount]
    ELSE CHOOSE r \in { IndexAndEnvironment(ppm, dht, dhtOk) :
                            ppm \in Concentrations(adc),
                            dhtOk \in {bacaDHT(dht[1], dht[2])} } : TRUE

\* createSensorJSON
createSensorJSON(r, adc) ==
    [built |-> TRUE,
     temp |-> Round1(r.temp), humidity |-> Round1(r.hum),
     aqi |-> Round1(r.aqi), status |-> getStatusUdara(r.aqi),
     ppm_MQ135 |-> Round1(r.ppm_135), ppm_MQ7 |-> Round1(r.ppm_7),
     ppm_MQ9 |-> Round1(r.ppm_9),
     adc_MQ135 |-> adc[1], adc_MQ7 |-> adc[2], adc_MQ9 |-> adc[3],
     ro_MQ135 |-> Round3(Ro_MQ135), ro_MQ7 |-> Round3(Ro_MQ7),
     ro_MQ9 |-> Round3(Ro_MQ9),
     deviceId |-> currentConfig.nfcId, interval |-> currentConfig.interval,
     protocol |-> currentConfig.protocol]

\* String::toUpperCase on the protocol names the model uses
ToUpper(str) == IF str = "mqtt" THEN "MQTT" ELSE str

\* The sender sendSensorData picks for a protocol ("none": unknown protocol).
SenderFor(protocol) ==
    LET proto == ToUpper(protocol)
    IN  IF proto = "HTTP" THEN "HTTP"
        ELSE IF proto = "HTTPS" THEN "HTTPS"
        ELSE IF proto = "MQTT" \/ proto = "MQTTS" THEN "MQTT"
        ELSE IF proto = "SERIAL" THEN "SERIAL"
        ELSE "none"

\* A failing DHT read is followed only while dhtErrorCount is below the
\* model's bound.
DhtWithinBound(dht) == bacaDHT(dht[1], dht[2]) \/ dhtErrorCount < MaxDhtErr

\* bool sendSensorData(), up to its return; netOk is the transport's answer.
\* The locals (raw values, document, sender, result) are in `out` until
\* the function has returned.
sendSensorData ==
    /\ pc' = "sendSensorData"
    /\ IF ~wifiConnected /\ currentConfig.protocol # "SERIAL"
       THEN /\ out' = [NoOut EXCEPT !.kind = "nowifi"]
            /\ UNCHANGED <<lastValidTemp, lastValidHumidity, dhtErrorCount>>
       ELSE \E adc \in AdcTriples, dht \in DhtReads :
              /\ DhtWithinBound(dht)
              /\ \E r \in {readSensorData(adc, dht)} :
                  /\ lastValidTemp' = r.lastValidTemp
                  /\ lastValidHumidity' = r.lastValidHumidity
                  /\ dhtErrorCount' = r.dhtErrorCount
                  /\ IF FLt(r.aqi, Zero)
                     THEN out' = [NoOut EXCEPT !.kind = "skip", !.adc = adc]
                     ELSE \E sender \in {SenderFor(currentConfig.protocol)},
                             json \in {createSensorJSON(r, adc)},
                             netOk \in BOOLEAN :
                            out' = [kind |-> "reading", adc |-> adc,
                                    json |-> json, sender |-> sender,
                                    success |->
                                        IF sender = "SERIAL" THEN TRUE
                                        ELSE IF sender = "none" THEN FALSE
                                        ELSE netOk]

\* loop(): the scheduled cycle, when the sensor interval has elapsed
ScheduledSend ==
    /\ pc = "loop"
    /\ configurationValid
    /\ currentConfig.protocol = "SERIAL" \/ wifiConnected
    /\ sendSensorData
    /\ UNCHANGED <<Ro_MQ135, Ro_MQ7, Ro_MQ9, currentConfig,
                   configurationValid, configLoadedFromEEPROM, wifiConnected,
                   eeprom, flash, calibFlag, stmt, lastGood, lostAt,
                   calibrated>>

\* loop(): serial command "send"
CommandSend ==
    /\ pc = "loop"
    /\ configurationValid
    /\ sendSensorData
    /\ UNCHANGED <<Ro_MQ135, Ro_MQ7, Ro_MQ9, currentConfig,
                   configurationValid, configLoadedFromEEPROM, wifiConnected,
                   eeprom, flash, calibFlag, stmt, lastGood, lostAt,
                   calibrated>>

\* sendSensorData returns to loop(): its locals are gone.
SendReturn ==
    /\ pc = "sendSensorData"
    /\ pc' = "loop"
    /\ out' = NoOut
    /\ UNCHANGED <<Ro_MQ135, Ro_MQ7, Ro_MQ9, lastValidTemp,
                   lastValidHumidity, dhtErrorCount, currentConfig,
                   configurationValid, configLoadedFromEEPROM, wifiConnected,
                   eeprom, flash, calibFlag, stmt, lastGood, lostAt,
                   calibrated>>

\* loop(): serial command "test" (readSensorData, results printed only)
CommandTest ==
    /\ pc = "loop"
    /\ \E adc \in AdcTriples, dht \in DhtReads :
          /\ DhtWithinBound(dht)
          /\ \E r \in {readSensorData(adc, dht)} :
                /\ lastValidTemp' = r.lastValidTemp
                /\ lastValidHumidity' = r.lastValidHumidity
                /\ dhtErrorCount' = r.dhtErrorCount
    /\ UNCHANGED <<pc, Ro_MQ135, Ro_MQ7, Ro_MQ9, currentConfig,
                   configurationValid, configLoadedFromEEPROM, wifiConnected,
                   eeprom, flash, calibFlag, stmt, out, lastGood, lostAt,
                   calibrated>>

\* ---------------------------------------------------------------------------
\* Calibration
\* ---------------------------------------------------------------------------

\* The raw values of the i-th sample (i = 0 .. CALIBRATION_SAMPLES - 1) of a
\* run in which `odd` samples are disturbed.
SampleAt(odd, i) == IF i < odd THEN CalibOdd ELSE CalibAmbient

\* The for loop of kalibrasiSensor for one channel: sum += hitungRs(adc)
RECURSIVE SumRs(_, _, _, _)
SumRs(ch, odd, i, sum) ==
    IF i >= CALIBRATION_SAMPLES THEN sum
    ELSE LET next == FAdd(sum, hitungRs(SampleAt(odd, i)[ch]))
         IN  IF IsNaN(next) THEN NaN   \* NaN stays NaN under +=
             ELSE SumRs(ch, odd, i + 1, next)

\* The baseline without the division by RO_CLEAN_AIR_FACTOR.
RoFromSumUnscaled(sum) == FDiv(sum, FromInt(CALIBRATION_SAMPLES))

\* Ro = (sum / CALIBRATION_SAMPLES) / RO_CLEAN_AIR_FACTOR
RoFromSum(sum) ==
    FDiv(FDiv(sum, FromInt(CALIBRATION_SAMPLES)), RO_CLEAN_AIR_FACTOR)

\* The baselines a run computes, by the number of disturbed samples.
CalibrationResult ==
    [odd \in 0..(MaxOddSamples + 1) |->
        <<RoFromSum(SumRs(1, odd, 0, Zero)), RoFromSum(SumRs(2, odd, 0, Zero)),
          RoFromSum(SumRs(3, odd, 0, Zero))>>]

\* kalibrasiSensor up to its call of tulisEEPROM; while it runs `out`
\* tells what called it.
kalibrasiSensor ==
    /\ pc = "kalibrasiSensor"
    /\ \E ro \in { CalibrationResult[odd] : odd \in 0..MaxOddSamples } :
          /\ Ro_MQ135' = ro[1]
          /\ Ro_MQ7' = ro[2]
          /\ Ro_MQ9' = ro[3]
    /\ pc' = "tulisEEPROM"
    /\ stmt' = 1
    /\ calibrated' = TRUE
    /\ out' = NoOut
    /\ UNCHANGED <<lastValidTemp, lastValidHumidity, dhtErrorCount,
                   currentConfig, configurationValid, configLoadedFromEEPROM,
                   wifiConnected, eeprom, flash, calibFlag, lastGood,
                   lostAt>>

\* tulisEEPROM on a memory without a buffer: every statement stores what
\* it writes at once.
tulisEEPROMWriteThrough(n, mem, stored) ==
    IF n = 1 THEN <<EepromPut(mem, ADDR_RO_MQ135, Ro_MQ135),
                    EepromPut(stored, ADDR_RO_MQ135, Ro_MQ135)>>
    ELSE IF n = 2 THEN <<EepromPut(mem, ADDR_RO_MQ7, Ro_MQ7),
                         EepromPut(stored, ADDR_RO_MQ7, Ro_MQ7)>>
    ELSE IF n = 3 THEN <<EepromPut(mem, ADDR_RO_MQ9, Ro_MQ9),
                         EepromPut(stored, ADDR_RO_MQ9, Ro_MQ9)>>
    ELSE IF n = 4
         THEN <<EepromWrite(mem, ADDR_CALIB_FLAG, Byte(CALIB_MAGIC)),
                EepromWrite(stored, ADDR_CALIB_FLAG, Byte(CALIB_MAGIC))>>
    ELSE <<mem, mem>>

\* tulisEEPROM writing its marker at the configuration's.
tulisEEPROMMarkerAtConfig(n, mem, stored) ==
    IF n = 1 THEN <<EepromPut(mem, ADDR_RO_MQ135, Ro_MQ135), stored>>
    ELSE IF n = 2 THEN <<EepromPut(mem, ADDR_RO_MQ7, Ro_MQ7), stored>>
    ELSE IF n = 3 THEN <<EepromPut(mem, ADDR_RO_MQ9, Ro_MQ9), stored>>
    ELSE IF n = 4
         THEN <<EepromWrite(mem, ADDR_CONFIG_FLAG, Byte(CALIB_MAGIC)), stored>>
    ELSE <<mem, mem>>

\* tulisEEPROM, statement n: <<RAM buffer, stored image>> after it.
\* Statements 1 to 4 write to the RAM buffer; statement 5, EEPROM.commit(),
\* stores the buffer whole.
tulisEEPROM(n, mem, stored) ==
    IF n = 1 THEN <<EepromPut(mem, ADDR_RO_MQ135, Ro_MQ135), stored>>
    ELSE IF n = 2 THEN <<EepromPut(mem, ADDR_RO_MQ7, Ro_MQ7), stored>>
    ELSE IF n = 3 THEN <<EepromPut(mem, ADDR_RO_MQ9, Ro_MQ9), stored>>
    ELSE IF n = 4
         THEN <<EepromWrite(mem, ADDR_CALIB_FLAG, Byte(CALIB_MAGIC)), stored>>
    ELSE <<mem, mem>>

\* One statement of tulisEEPROM; after EEPROM.commit() the calibration run
\* is over and loop() goes on.
TulisStatement ==
    /\ pc = "tulisEEPROM"
    /\ LET after == tulisEEPROM(stmt, eeprom, flash)
       IN  /\ eeprom' = after[1]
           /\ flash' = after[2]
    /\ IF stmt = 5
       THEN /\ pc' = "loop"
            /\ stmt' = 0
            /\ lastGood' = [valid |-> TRUE, r135 |-> Ro_MQ135,
                            r7 |-> Ro_MQ7, r9 |-> Ro_MQ9]
            /\ lostAt' = 0
       ELSE /\ stmt' = stmt + 1
            /\ UNCHANGED <<pc, lastGood, lostAt>>
    /\ UNCHANGED <<Ro_MQ135, Ro_MQ7, Ro_MQ9, lastValidTemp,
                   lastValidHumidity, dhtErrorCount, currentConfig,
                   configurationValid, configLoadedFromEEPROM, wifiConnected,
                   calibFlag, out, calibrated>>

\* cekTombolKalibrasi calling kalibrasiSensor whatever the debounce timer
\* says.
cekTombolKalibrasiUndebounced(reading, changed, elapsed) == ~reading

\* cekTombolKalibrasi: whether it calls kalibrasiSensor.  reading: the pin
\* level (TRUE is HIGH); changed: it differs from lastButtonState, which
\* restarts the debounce timer; elapsed: millis() - lastDebounceTime exceeds
\* debounceDelay.
cekTombolKalibrasi(reading, changed, elapsed) ==
    ~changed /\ elapsed /\ ~reading

\* loop(): cekTombolKalibrasi()
CekTombolKalibrasi ==
    /\ pc = "loop"
    /\ \E reading \in BOOLEAN, changed \in BOOLEAN, elapsed \in BOOLEAN :
          IF cekTombolKalibrasi(reading, changed, elapsed)
          THEN /\ pc' = "kalibrasiSensor"
               /\ out' = [kind |-> "kalibrasiSensor", by |-> "button",
                          reading |-> reading, changed |-> changed,
                          elapsed |-> elapsed]
          ELSE UNCHANGED <<pc, out>>
    /\ UNCHANGED <<Ro_MQ135, Ro_MQ7, Ro_MQ9, stmt, calibrated,
                   lastValidTemp, lastValidHumidity, dhtErrorCount,
                   currentConfig, configurationValid, configLoadedFromEEPROM,
                   wifiConnected, eeprom, flash, calibFlag, lastGood,
                   lostAt>>

\* loop(): serial command "calib"
CommandCalib ==
    /\ pc = "loop"
    /\ pc' = "kalibrasiSensor"
    /\ out' = [kind |-> "kalibrasiSensor", by |-> "calib"]
    /\ UNCHANGED <<Ro_MQ135, Ro_MQ7, Ro_MQ9, stmt, calibrated,
                   lastValidTemp, lastValidHumidity, dhtErrorCount,
                   currentConfig, configurationValid, configLoadedFromEEPROM,
                   wifiConnected, eeprom, flash, calibFlag, lastGood,
                   lostAt>>

\* ---------------------------------------------------------------------------
\* Configuration commands and WiFi
\* ---------------------------------------------------------------------------

\* clearConfigFromEEPROM (serial command "clearconfig")
CommandClearConfig ==
    /\ pc = "loop"
    /\ eeprom' = EepromWrite(eeprom, ADDR_CONFIG_FLAG, Byte(0))
    /\ flash' = eeprom'
    /\ configurationValid' = FALSE
    /\ configLoadedFromEEPROM' = FALSE
    /\ UNCHANGED <<out, pc, Ro_MQ135, Ro_MQ7, Ro_MQ9, lastValidTemp,
                   lastValidHumidity, dhtErrorCount, currentConfig,
                   wifiConnected, calibFlag, stmt, lastGood,
                   lostAt, calibrated>>

\* Documents a scanned tag carries.
TagDocs == { DocHttp, DocNoWifi }

\* processNFCTag on a tag with new data.  hasJson: extractJSON found a
\* document and deserializeJson accepted it; joined: the network accepted
\* the device.  parseJSONConfig assigns currentConfig before its checks;
\* an accepted configuration is saved (saveConfigToEEPROM commits unless the
\* document is too large) and, for a network protocol, WiFi is joined.
ProcessNFCTag ==
    /\ pc = "loop"
    /\ \E hasJson \in BOOLEAN, doc \in TagDocs, joined \in BOOLEAN :
          IF ~hasJson
          THEN /\ configurationValid' = FALSE
               /\ UNCHANGED <<currentConfig, configLoadedFromEEPROM,
                              wifiConnected, eeprom, flash>>
          ELSE \E cfg \in {ConfigFromDoc(doc)} :
                 /\ currentConfig' = cfg
                 /\ IF ~ConfigAccepted(cfg)
                    THEN /\ configurationValid' = FALSE
                         /\ UNCHANGED <<configLoadedFromEEPROM,
                                        wifiConnected, eeprom, flash>>
                    ELSE /\ configurationValid' = TRUE
                         /\ configLoadedFromEEPROM' = FALSE
                         /\ eeprom' = saveConfigToEEPROM(eeprom, cfg)
                         /\ flash' = IF Len(configToJSON(cfg))
                                         > MAX_CONFIG_SIZE
                                     THEN flash ELSE eeprom'
                         /\ wifiConnected' =
                               IF cfg.protocol # "SERIAL" /\ cfg.wifi # ""
                               THEN joined ELSE wifiConnected
    /\ UNCHANGED <<out, pc, Ro_MQ135, Ro_MQ7, Ro_MQ9, lastValidTemp,
                   lastValidHumidity, dhtErrorCount, calibFlag, stmt,
                   lastGood, lostAt, calibrated>>

\* connectToWiFi: wifiConnected afterwards, when the network answers joined
connectToWiFi(joined) ==
    IF currentConfig.wifi = "" THEN wifiConnected ELSE joined

\* loop(): the periodic WiFi check finding the link lost, and the serial
\* command "wifi"
Reconnect ==
    /\ pc = "loop"
    /\ configurationValid
    /\ currentConfig.protocol # "SERIAL"
    /\ \E joined \in BOOLEAN : wifiConnected' = connectToWiFi(joined)
    /\ UNCHANGED <<out, pc, Ro_MQ135, Ro_MQ7, Ro_MQ9, lastValidTemp,
                   lastValidHumidity, dhtErrorCount, currentConfig,
                   configurationValid, configLoadedFromEEPROM,
                   eeprom, flash, calibFlag, stmt, lastGood,
                   lostAt, calibrated>>

\* ---------------------------------------------------------------------------
\* Start-up and power loss
\* ---------------------------------------------------------------------------

\* bacaEEPROM without the test of the marker byte.
bacaEEPROMIgnoringMarker(mem) ==
    <<EepromGet(mem, ADDR_RO_MQ135), EepromGet(mem, ADDR_RO_MQ7),
      EepromGet(mem, ADDR_RO_MQ9)>>

\* bacaEEPROM with the addresses of MQ7 and MQ9 exchanged.
bacaEEPROMSwapped(mem) ==
    IF EepromRead(mem, ADDR_CALIB_FLAG).raw = CALIB_MAGIC
    THEN <<EepromGet(mem, ADDR_RO_MQ135), EepromGet(mem, ADDR_RO_MQ9),
           EepromGet(mem, ADDR_RO_MQ7)>>
    ELSE <<Ro_MQ135, Ro_MQ7, Ro_MQ9>>

\* bacaEEPROM: the three baselines after it
bacaEEPROM(mem) ==
    IF EepromRead(mem, ADDR_CALIB_FLAG).raw = CALIB_MAGIC
    THEN <<EepromGet(mem, ADDR_RO_MQ135), EepromGet(mem, ADDR_RO_MQ7),
           EepromGet(mem, ADDR_RO_MQ9)>>
    ELSE <<Ro_MQ135, Ro_MQ7, Ro_MQ9>>

\* setup().  eepromOk: EEPROM.begin succeeded; nfcOk: the PN532 answered;
\* joined: the network accepted the device.
Setup ==
    /\ pc = "off"
    /\ \E eepromOk \in BOOLEAN, nfcOk \in BOOLEAN, joined \in BOOLEAN :
          IF ~eepromOk
          THEN /\ pc' = "halt_eeprom"
               /\ UNCHANGED <<Ro_MQ135, Ro_MQ7, Ro_MQ9, currentConfig,
                              configurationValid, configLoadedFromEEPROM,
                              wifiConnected, eeprom, calibFlag>>
          ELSE LET ro == bacaEEPROM(flash)
                   cfg == loadConfigFromEEPROM(flash, currentConfig)
               IN  /\ eeprom' = flash
                   /\ calibFlag' = EepromRead(flash, ADDR_CALIB_FLAG).raw
                   /\ Ro_MQ135' = ro[1]
                   /\ Ro_MQ7' = ro[2]
                   /\ Ro_MQ9' = ro[3]
                   /\ currentConfig' = cfg.cfg
                   /\ configurationValid' = cfg.ok
                   /\ configLoadedFromEEPROM' = cfg.ok
                   /\ wifiConnected' =
                         IF cfg.ok /\ cfg.cfg.protocol # "SERIAL"
                         THEN joined ELSE wifiConnected
                   /\ pc' = IF nfcOk THEN "loop" ELSE "halt_nfc"
    /\ UNCHANGED <<lastValidTemp, lastValidHumidity, dhtErrorCount,
                   flash, stmt, out, lastGood, lostAt,
                   calibrated>>

\* Power is lost and comes back: every global is set to its initial value,
\* the RAM buffer is gone, the stored image stays.
PowerLoss ==
    /\ pc # "off"
    /\ pc' = "off"
    /\ Ro_MQ135' = RoDefault
    /\ Ro_MQ7' = RoDefault
    /\ Ro_MQ9' = RoDefault
    /\ lastValidTemp' = TempDefault
    /\ lastValidHumidity' = HumDefault
    /\ dhtErrorCount' = 0
    /\ currentConfig' = EmptyConfig
    /\ configurationValid' = FALSE
    /\ configLoadedFromEEPROM' = FALSE
    /\ wifiConnected' = FALSE
    /\ eeprom' = <<>>
    /\ calibFlag' = -1
    /\ stmt' = 0
    /\ out' = NoOut
    /\ lostAt' = IF stmt > 1 THEN stmt ELSE 0
    /\ calibrated' = FALSE
    /\ UNCHANGED <<flash, lastGood>>

Next ==
    \/ Setup
    \/ PowerLoss
    \/ ScheduledSend
    \/ CommandSend
    \/ SendReturn
    \/ CommandTest
    \/ CekTombolKalibrasi
    \/ CommandCalib
    \/ kalibrasiSensor
    \/ TulisStatement
    \/ CommandClearConfig
    \/ ProcessNFCTag
    \/ Reconnect

Spec == Init /\ [][Next]_vars

\* ---------------------------------------------------------------------------
\* The sensor mathematics on its own: a second specification in which each
\* step applies one of the pure functions to arguments drawn from the sets
\* below, once.  `out` holds the function's name, its arguments and its
\* result; every other variable keeps its start-up value.
\* ---------------------------------------------------------------------------

\* Scores around every threshold of getStatusUdara
ScoreValues ==
    { Zero, Norm(1, -1), Norm(199999, -4), FromInt(20), Norm(200001, -4),
      Norm(499999, -4), FromInt(50), Norm(500001, -4), Norm(999999, -4),
      FromInt(100), Norm(100001, -3), Norm(199999, -3), FromInt(200),
      Norm(200001, -3), FromInt(500), Norm(1, 30), PosInf }

\* Concentrations (non-negative)
PpmValues ==
    { Zero, Norm(1, -1), Norm(333333, -4), Norm(123456, -3),
      Norm(416667, -3), FromInt(1250), FromInt(10000), PosInf }

\* Sensor resistances and baselines, in and out of their valid ranges
RsValues ==
    { NaN, FromInt(-5), Zero, Norm(1, -30), Norm(1, -1), Norm(10475, -3),
      FromInt(999999), Norm(1, 30) }

RoValues ==
    { NegInf, FromInt(-4), Zero, Norm(1, -30), Norm(1, -3), RoDefault,
      Norm(203658, -2), Norm(1, 30) }

\* Every raw value validasiADC accepts from the 12-bit converter
AdcValues == 0..ADC_MAX

\* The coefficient pair (a, b) of each channel
Coefficients == { <<MQ135_A, MQ135_B>>, <<MQ7_A, MQ7_B>>, <<MQ9_A, MQ9_B>> }

MathInit ==
    /\ pc = "math"
    /\ Ro_MQ135 = RoDefault
    /\ Ro_MQ7 = RoDefault
    /\ Ro_MQ9 = RoDefault
    /\ lastValidTemp = TempDefault
    /\ lastValidHumidity = HumDefault
    /\ dhtErrorCount = 0
    /\ currentConfig = EmptyConfig
    /\ configurationValid = FALSE
    /\ configLoadedFromEEPROM = FALSE
    /\ wifiConnected = FALSE
    /\ eeprom = <<>>
    /\ flash = ImageErased
    /\ calibFlag = -1
    /\ stmt = 0
    /\ out = [fn |-> "none", args |-> <<>>, res |-> <<>>]
    /\ lastGood = NoCalibration
    /\ lostAt = 0
    /\ calibrated = FALSE

\* getStatusUdara(aqi) and the dashboard's getAqiStatus(aqi).text
ApplyStatus ==
    /\ pc = "math"
    /\ out.fn = "none"
    /\ \E aqi \in ScoreValues :
          out' = [fn |-> "getStatusUdara", args |-> <<aqi>>,
                  res |-> <<getStatusUdara(aqi), getAqiStatus(aqi)>>]
    /\ UNCHANGED <<pc, Ro_MQ135, Ro_MQ7, Ro_MQ9, lastValidTemp,
                   lastValidHumidity, dhtErrorCount, currentConfig,
                   configurationValid, configLoadedFromEEPROM, wifiConnected,
                   eeprom, flash, calibFlag, stmt, lastGood, lostAt,
                   calibrated>>

\* hitungAQI on three concentrations, and again with one of them raised
ApplyAQI ==
    /\ pc = "math"
    /\ out.fn = "none"
    /\ \E p135 \in PpmValues, p7 \in PpmValues, p9 \in PpmValues,
          ch \in 1..3, raised \in PpmValues :
          LET low == <<p135, p7, p9>>
              high == [low EXCEPT ![ch] = raised]
          IN  /\ FLe(low[ch], raised)
              /\ out' = [fn |-> "hitungAQI", args |-> <<low, high>>,
                         res |-> <<hitungAQI(low[1], low[2], low[3]),
                                   hitungAQI(high[1], high[2], high[3])>>]
    /\ UNCHANGED <<pc, Ro_MQ135, Ro_MQ7, Ro_MQ9, lastValidTemp,
                   lastValidHumidity, dhtErrorCount, currentConfig,
                   configurationValid, configLoadedFromEEPROM, wifiConnected,
                   eeprom, flash, calibFlag, stmt, lastGood, lostAt,
                   calibrated>>

\* hitungKonsentrasi(Rs, Ro, a, b)
ApplyKonsentrasi ==
    /\ pc = "math"
    /\ out.fn = "none"
    /\ \E Rs \in RsValues, Ro \in RoValues, ab \in Coefficients :
          out' = [fn |-> "hitungKonsentrasi", args |-> <<Rs, Ro>>,
                  res |-> <<hitungKonsentrasi(Rs, Ro, ab[1], ab[2])>>]
    /\ UNCHANGED <<pc, Ro_MQ135, Ro_MQ7, Ro_MQ9, lastValidTemp,
                   lastValidHumidity, dhtErrorCount, currentConfig,
                   configurationValid, configLoadedFromEEPROM, wifiConnected,
                   eeprom, flash, calibFlag, stmt, lastGood, lostAt,
                   calibrated>>

\* hitungRs(adcValue), with the value of its voltage divider
ApplyRs ==
    /\ pc = "math"
    /\ out.fn = "none"
    /\ \E adcValue \in AdcValues :
          out' = [fn |-> "hitungRs", args |-> <<adcValue>>,
                  res |-> <<hitungRs(adcValue), DividerRs(adcValue)>>]
    /\ UNCHANGED <<pc, Ro_MQ135, Ro_MQ7, Ro_MQ9, lastValidTemp,
                   lastValidHumidity, dhtErrorCount, currentConfig,
                   configurationValid, configLoadedFromEEPROM, wifiConnected,
                   eeprom, flash, calibFlag, stmt, lastGood, lostAt,
                   calibrated>>

MathNext ==
    \/ ApplyStatus
    \/ ApplyAQI
    \/ ApplyKonsentrasi
    \/ ApplyRs

MathSpec == MathInit /\ [][MathNext]_vars

\* ---------------------------------------------------------------------------
\* One sampling cycle statement by statement: a third specification, in
\* which sendSensorData runs again and again on a booted device and each
\* step is one group of statements of readSensorData, or the rest of
\* sendSensorData after it.  `pc` is the group to run next; `out` holds the
\* locals, the names of the groups run so far (trace), and the values of
\* lastValidTemp, lastValidHumidity and dhtErrorCount when the cycle started
\* (before).
\* ---------------------------------------------------------------------------

\* What the DHT22 driver returns, on every side of bacaDHT's tests.
CycleDhtReads ==
    { <<Norm(305, -1), Norm(602, -1)>>, <<FromInt(-40), Zero>>,
      <<FromInt(80), FromInt(100)>>,
      <<NaN, NaN>>, <<NaN, Norm(40, 0)>>, <<Norm(22, 0), NaN>>,
      <<Norm(-401, -1), Norm(40, 0)>>, <<Norm(801, -1), Norm(40, 0)>>,
      <<Norm(22, 0), Norm(-1, -1)>>, <<Norm(22, 0), Norm(1001, -1)>> }

\* Stored images whose configuration setup() accepts.
CycleImages == { ImageSerial, ImageHttp, ImageCoap }

NoTriple == <<Zero, Zero, Zero>>

CycleLocals ==
    [trace |-> <<>>, adc |-> <<0, 0, 0>>, Rs |-> NoTriple, raw |-> NoTriple,
     ppm |-> NoTriple, aqiArgs |-> NoTriple, aqi |-> Zero,
     dht |-> <<Zero, Zero>>, temp |-> Zero, hum |-> Zero,
     before |-> <<Zero, Zero, 0>>, kind |-> "none", json |-> EmptyJson,
     sender |-> "none", success |-> FALSE,
     fails |-> 0, lastOk |-> <<TempDefault, HumDefault>>]

\* The device after setup() on one of the images, the network joined.
CycleInit ==
    /\ pc = "AcquireRaw"
    /\ flash \in CycleImages
    /\ eeprom = flash
    /\ calibFlag = EepromRead(flash, ADDR_CALIB_FLAG).raw
    /\ lastGood = StoredCalibration(flash)
    /\ Ro_MQ135 = IF lastGood.valid THEN lastGood.r135 ELSE RoDefault
    /\ Ro_MQ7 = IF lastGood.valid THEN lastGood.r7 ELSE RoDefault
    /\ Ro_MQ9 = IF lastGood.valid THEN lastGood.r9 ELSE RoDefault
    /\ lastValidTemp = TempDefault
    /\ lastValidHumidity = HumDefault
    /\ dhtErrorCount = 0
    /\ currentConfig = loadConfigFromEEPROM(flash, EmptyConfig).cfg
    /\ configurationValid = TRUE
    /\ configLoadedFromEEPROM = TRUE
    /\ wifiConnected = (currentConfig.protocol # "SERIAL")
    /\ stmt = 0
    /\ out = [CycleLocals EXCEPT
                 !.before = <<TempDefault, HumDefault, 0>>]
    /\ lostAt = 0
    /\ calibrated = FALSE

\* What a step of the cycle leaves alone besides the DHT fallback state.
CycleFrame ==
    UNCHANGED <<Ro_MQ135, Ro_MQ7, Ro_MQ9, currentConfig, configurationValid,
                configLoadedFromEEPROM, wifiConnected, eeprom, flash,
                calibFlag, stmt, lastGood, lostAt, calibrated>>

DhtFrame == UNCHANGED <<lastValidTemp, lastValidHumidity, dhtErrorCount>>

\* adc_135 = analogRead(MQ135_PIN); adc_7 = ...; adc_9 = ...
AcquireRaw ==
    /\ pc = "AcquireRaw"
    /\ \E adc \in AdcTriples :
          out' = [out EXCEPT !.adc = adc,
                             !.trace = Append(@, "AcquireRaw")]
    /\ pc' = "ValidateRaw"
    /\ DhtFrame
    /\ CycleFrame

\* if (!validasiADC(...) || ...) { aqi = -1; return; }
ValidateRaw ==
    /\ pc = "ValidateRaw"
    /\ IF ~validasiADC(out.adc[1]) \/ ~validasiADC(out.adc[2])
          \/ ~validasiADC(out.adc[3])
       THEN /\ out' = [out EXCEPT !.aqi = FromInt(-1),
                                  !.trace = Append(@, "ValidateRaw")]
            /\ pc' = "Emit"
       ELSE /\ out' = [out EXCEPT !.trace = Append(@, "ValidateRaw")]
            /\ pc' = "ComputeResistance"
    /\ DhtFrame
    /\ CycleFrame

\* float Rs_MQ135 = hitungRs(adc_135); ...
ComputeResistance ==
    /\ pc = "ComputeResistance"
    /\ out' = [out EXCEPT
                  !.Rs = <<hitungRs(out.adc[1]), hitungRs(out.adc[2]),
                           hitungRs(out.adc[3])>>,
                  !.trace = Append(@, "ComputeResistance")]
    /\ pc' = "ComputeConcentration"
    /\ DhtFrame
    /\ CycleFrame

ComputeConcentrationCrossed ==
    /\ pc = "ComputeConcentration"
    /\ \E ppm \in { <<p135, p7, p9>> :
            p135 \in {hitungKonsentrasi(out.Rs[1], Ro_MQ135,
                                        MQ135_A, MQ135_B)},
            p7 \in {hitungKonsentrasi(out.Rs[2], Ro_MQ9, MQ7_A, MQ7_B)},
            p9 \in {hitungKonsentrasi(out.Rs[3], Ro_MQ9, MQ9_A, MQ9_B)} } :
          out' = [out EXCEPT !.raw = ppm, !.ppm = ppm,
                             !.trace = Append(@, "ComputeConcentration")]
    /\ pc' = "ValidatePpm"
    /\ DhtFrame
    /\ CycleFrame

\* ppm_135 = hitungKonsentrasi(Rs_MQ135, Ro_MQ135, MQ135_A, MQ135_B); ...
\* (raw keeps what the three calls returned)
ComputeConcentration ==
    /\ pc = "ComputeConcentration"
    /\ \E ppm \in { <<p135, p7, p9>> :
            p135 \in {hitungKonsentrasi(out.Rs[1], Ro_MQ135,
                                        MQ135_A, MQ135_B)},
            p7 \in {hitungKonsentrasi(out.Rs[2], Ro_MQ7, MQ7_A, MQ7_B)},
            p9 \in {hitungKonsentrasi(out.Rs[3], Ro_MQ9, MQ9_A, MQ9_B)} } :
          out' = [out EXCEPT !.raw = ppm, !.ppm = ppm,
                             !.trace = Append(@, "ComputeConcentration")]
    /\ pc' = "ValidatePpm"
    /\ DhtFrame
    /\ CycleFrame

\* if (ppm_135 < 0 || ...) { if (ppm_135 < 0) ppm_135 = MIN_PPM_THRESHOLD; ... }
ValidatePpm ==
    /\ pc = "ValidatePpm"
    /\ out' = [out EXCEPT
                  !.ppm = <<SubstituteFloor(out.ppm[1]),
                            SubstituteFloor(out.ppm[2]),
                            SubstituteFloor(out.ppm[3])>>]
    /\ pc' = "ComputeIndex"
    /\ DhtFrame
    /\ CycleFrame

\* aqi = hitungAQI(ppm_135, ppm_7, ppm_9);  (aqiArgs keeps the arguments)
ComputeIndex ==
    /\ pc = "ComputeIndex"
    /\ out' = [out EXCEPT
                  !.aqiArgs = out.ppm,
                  !.aqi = hitungAQI(out.ppm[1], out.ppm[2], out.ppm[3]),
                  !.trace = Append(@, "ComputeIndex")]
    /\ pc' = "ReadEnvironmental"
    /\ DhtFrame
    /\ CycleFrame

\* The DHT22 result d is a failed read: a NaN, a temperature outside
\* [-40, 80] or a humidity outside [0, 100].
DhtFailed(d) ==
    \/ IsNaN(d[1])
    \/ IsNaN(d[2])
    \/ FLt(d[1], FromInt(-40))
    \/ FGt(d[1], FromInt(80))
    \/ FLt(d[2], Zero)
    \/ FGt(d[2], FromInt(100))

\* History of the environmental reads since boot, kept beside the locals:
\* fails counts the failed reads after the most recent successful one and
\* lastOk is the pair that one returned.
ReadHistory(h, dht) ==
    IF DhtFailed(dht)
    THEN [h EXCEPT !.fails = @ + 1]
    ELSE [h EXCEPT !.fails = 0, !.lastOk = dht]

dhtErrorCountNeverReset(ok, count) == IF ok THEN count ELSE count + 1

\* dhtErrorCount++ after a failed read, dhtErrorCount = 0 after a good one
dhtErrorCountAfter(ok, count) == IF ok THEN 0 ELSE count + 1

\* if (!bacaDHT(temp, hum)) { temp = lastValidTemp; hum = lastValidHumidity;
\* dhtErrorCount++; } else { lastValidTemp = temp; lastValidHumidity = hum;
\* dhtErrorCount = 0; }
ReadEnvironmental ==
    /\ pc = "ReadEnvironmental"
    /\ \E dht \in CycleDhtReads :
          /\ DhtWithinBound(dht)
          /\ IF bacaDHT(dht[1], dht[2])
             THEN /\ out' = [ReadHistory(out, dht) EXCEPT
                               !.dht = dht, !.temp = dht[1], !.hum = dht[2],
                               !.trace = Append(@, "ReadEnvironmental")]
                  /\ lastValidTemp' = dht[1]
                  /\ lastValidHumidity' = dht[2]
                  /\ dhtErrorCount' = dhtErrorCountAfter(TRUE, dhtErrorCount)
             ELSE /\ out' = [ReadHistory(out, dht) EXCEPT
                               !.dht = dht, !.temp = lastValidTemp,
                               !.hum = lastValidHumidity,
                               !.trace = Append(@, "ReadEnvironmental")]
                  /\ dhtErrorCount' = dhtErrorCountAfter(FALSE, dhtErrorCount)
                  /\ UNCHANGED <<lastValidTemp, lastValidHumidity>>
    /\ pc' = "Emit"
    /\ CycleFrame

\* sendSensorData after readSensorData: if (aqi < 0) return false; else
\* createSensorJSON and the sender of the protocol
Emit ==
    /\ pc = "Emit"
    /\ IF FLt(out.aqi, Zero)
       THEN out' = [out EXCEPT !.kind = "skip"]
       ELSE \E sender \in {SenderFor(currentConfig.protocol)},
               json \in {createSensorJSON(
                            [temp |-> out.temp, hum |-> out.hum,
                             aqi |-> out.aqi, ppm_135 |-> out.ppm[1],
                             ppm_7 |-> out.ppm[2], ppm_9 |-> out.ppm[3]],
                            out.adc)},
               netOk \in BOOLEAN :
              out' = [out EXCEPT
                        !.kind = "reading", !.json = json,
                        !.sender = sender,
                        !.success = IF sender = "SERIAL" THEN TRUE
                                    ELSE IF sender = "none" THEN FALSE
                                    ELSE netOk,
                        !.trace = Append(@, "Emit")]
    /\ pc' = "done"
    /\ DhtFrame
    /\ CycleFrame

\* sendSensorData returns; loop() starts the next cycle.
NextCycle ==
    /\ pc = "done"
    /\ pc' = "AcquireRaw"
    /\ out' = [CycleLocals EXCEPT
                  !.before = <<lastValidTemp, lastValidHumidity,
                               dhtErrorCount>>,
                  !.fails = out.fails, !.lastOk = out.lastOk]
    /\ DhtFrame
    /\ CycleFrame

CycleNext ==
    \/ AcquireRaw
    \/ ValidateRaw
    \/ ComputeResistance
    \/ ComputeConcentration
    \/ ValidatePpm
    \/ ComputeIndex
    \/ ReadEnvironmental
    \/ Emit
    \/ NextCycle

CycleSpec == CycleInit /\ [][CycleNext]_vars

\* ---------------------------------------------------------------------------
\* Persistent storage: a fourth specification, in which a booted device
\* only calibrates, saves configurations of every size up to and over
\* MAX_CONFIG_SIZE, and clears the saved configuration.
\* ---------------------------------------------------------------------------

\* A SERIAL configuration whose other string fields add up to pad bytes.
DocSized(pad) ==
    [nfcId |-> "dev1", protocol |-> "SERIAL", interval |-> 2000, pad |-> pad]

\* Documents of 5, 8, MAX_CONFIG_SIZE and MAX_CONFIG_SIZE + 1 bytes.
StoreDocs ==
    { DocSerial, DocHttp, DocSized(MAX_CONFIG_SIZE - HeaderLen),
      DocSized(MAX_CONFIG_SIZE - HeaderLen + 1) }

\* The device after setup() on one of the stored images.
StoreInit ==
    /\ pc = "loop"
    /\ flash \in FlashImages
    /\ eeprom = flash
    /\ calibFlag = EepromRead(flash, ADDR_CALIB_FLAG).raw
    /\ lastGood = StoredCalibration(flash)
    /\ Ro_MQ135 = IF lastGood.valid THEN lastGood.r135 ELSE RoDefault
    /\ Ro_MQ7 = IF lastGood.valid THEN lastGood.r7 ELSE RoDefault
    /\ Ro_MQ9 = IF lastGood.valid THEN lastGood.r9 ELSE RoDefault
    /\ lastValidTemp = TempDefault
    /\ lastValidHumidity = HumDefault
    /\ dhtErrorCount = 0
    /\ currentConfig = loadConfigFromEEPROM(flash, EmptyConfig).cfg
    /\ configurationValid = loadConfigFromEEPROM(flash, EmptyConfig).ok
    /\ configLoadedFromEEPROM = configurationValid
    /\ wifiConnected = FALSE
    /\ stmt = 0
    /\ out = NoOut
    /\ lostAt = 0
    /\ calibrated = FALSE

\* processNFCTag on a tag whose document parseJSONConfig accepts:
\* configurationValid = true; configLoadedFromEEPROM = false;
\* saveConfigToEEPROM(); (the commit is inside saveConfigToEEPROM and is not
\* reached when the document is too large)
SaveConfiguration ==
    /\ pc = "loop"
    /\ \E doc \in StoreDocs :
         \E cfg \in {ConfigFromDoc(doc)} :
            /\ ConfigAccepted(cfg)
            /\ currentConfig' = cfg
            /\ configurationValid' = TRUE
            /\ configLoadedFromEEPROM' = FALSE
            /\ eeprom' = saveConfigToEEPROM(eeprom, cfg)
            /\ flash' = IF Len(configToJSON(cfg)) > MAX_CONFIG_SIZE
                        THEN flash ELSE eeprom'
    /\ UNCHANGED <<out, pc, Ro_MQ135, Ro_MQ7, Ro_MQ9, lastValidTemp,
                   lastValidHumidity, dhtErrorCount, wifiConnected,
                   calibFlag, stmt, lastGood, lostAt, calibrated>>

StoreNext ==
    \/ SaveConfiguration
    \/ CommandClearConfig
    \/ CommandCalib
    \/ kalibrasiSensor
    \/ TulisStatement

StoreSpec == StoreInit /\ [][StoreNext]_vars

\* ---------------------------------------------------------------------------
\* loop() with its clock: a fifth specification.  `pc` is the place in the
\* pass of loop() (or in the blocking call it made); `out` holds millis()
\* (now), the pass's currentTime, lastSensorSend, the bytes waiting in the
\* serial receive buffer as whole commands (rx), where the running blocking
\* call returns to (ret), what started the running cycle (by) and when
\* (start), and for the scheduled cycle completed last when it started and
\* how it ended (prev).  No tag is presented and the network stays as it
\* was at boot.
\* ---------------------------------------------------------------------------

\* Granularity of the clock and the last instant followed, in ms.
TickMs == 1000

MaxMillis == 18000

\* Commands that may wait in the serial receive buffer at once.
MaxRx == 1

SerialCommands == { "calib", "send", "test" }

\* delay(3000), CALIBRATION_SAMPLES times delay(200), delay(2000)
CalibWaitMs == 3000

CalibSampleMs == CALIBRATION_SAMPLES * 200

CalibRestMs == 2000

CalibMs == CalibWaitMs + CalibSampleMs + CalibRestMs

\* unsigned long subtraction a - b for instants below 2^31: when b is the
\* later instant the result wraps to a - b + 2^32, which is above every
\* interval followed here and is written as the largest one.
WrappedMs == 2147483647

USub(a, b) == IF a >= b THEN a - b ELSE WrappedMs

\* unsigned long getSensorInterval()
getSensorInterval ==
    IF configurationValid /\ currentConfig.interval > 0
    THEN currentConfig.interval
    ELSE DEFAULT_SENSOR_INTERVAL

LoopImages == { ImageSerial, ImageCoap, ImageNoWifi }

NoCycle == [start |-> 0, kind |-> "none"]

LoopLocals ==
    [now |-> 0, currentTime |-> 0, lastSensorSend |-> 0, rx |-> <<>>,
     ret |-> "", by |-> "", start |-> 0, prev |-> NoCycle]

\* The device when setup() returns (lastSensorSend = millis()).
LoopInit ==
    /\ pc = "loop"
    /\ flash \in LoopImages
    /\ eeprom = flash
    /\ calibFlag = EepromRead(flash, ADDR_CALIB_FLAG).raw
    /\ lastGood = StoredCalibration(flash)
    /\ Ro_MQ135 = IF lastGood.valid THEN lastGood.r135 ELSE RoDefault
    /\ Ro_MQ7 = IF lastGood.valid THEN lastGood.r7 ELSE RoDefault
    /\ Ro_MQ9 = IF lastGood.valid THEN lastGood.r9 ELSE RoDefault
    /\ lastValidTemp = TempDefault
    /\ lastValidHumidity = HumDefault
    /\ dhtErrorCount = 0
    /\ currentConfig = loadConfigFromEEPROM(flash, EmptyConfig).cfg
    /\ configurationValid = loadConfigFromEEPROM(flash, EmptyConfig).ok
    /\ configLoadedFromEEPROM = configurationValid
    /\ wifiConnected \in IF configurationValid
                            /\ currentConfig.protocol # "SERIAL"
                         THEN BOOLEAN ELSE {FALSE}
    /\ stmt = 0
    /\ out = LoopLocals
    /\ lostAt = 0
    /\ calibrated = FALSE

SensorFrame ==
    UNCHANGED <<lastValidTemp, lastValidHumidity, dhtErrorCount>>

StoreFrame ==
    UNCHANGED <<Ro_MQ135, Ro_MQ7, Ro_MQ9, eeprom, flash, calibFlag, stmt,
                lastGood, lostAt, calibrated>>

ConfigFrame ==
    UNCHANGED <<currentConfig, configurationValid, configLoadedFromEEPROM,
                wifiConnected>>

\* loop() returns: its local currentTime is gone.
PassEnd(l) == [l EXCEPT !.currentTime = 0, !.ret = "", !.by = "", !.start = 0]

\* Time passes between two passes of loop().
Tick ==
    /\ pc = "loop"
    /\ out.now + TickMs <= MaxMillis
    /\ out' = [out EXCEPT !.now = @ + TickMs]
    /\ UNCHANGED pc
    /\ SensorFrame /\ StoreFrame /\ ConfigFrame

\* A command line arrives on the serial port, whatever the firmware is
\* doing: the UART driver puts it into the receive buffer.
SerialArrives ==
    /\ Len(out.rx) < MaxRx
    /\ \E cmd \in SerialCommands : out' = [out EXCEPT !.rx = Append(@, cmd)]
    /\ UNCHANGED pc
    /\ SensorFrame /\ StoreFrame /\ ConfigFrame

\* unsigned long currentTime = millis(); cekTombolKalibrasi();
PassStart ==
    /\ pc = "loop"
    /\ \E reading \in BOOLEAN, changed \in BOOLEAN, elapsed \in BOOLEAN :
          IF cekTombolKalibrasi(reading, changed, elapsed)
          THEN /\ out.now + CalibMs <= MaxMillis
               /\ pc' = "kalibrasiSensor"
               /\ out' = [out EXCEPT !.currentTime = out.now,
                                     !.ret = "release"]
          ELSE /\ pc' = "release"
               /\ out' = [out EXCEPT !.currentTime = out.now]
    /\ SensorFrame /\ StoreFrame /\ ConfigFrame

\* if (currentTime - lastReleaseTime >= RELEASE_INTERVAL) { releaseNFCField();
\* return; }  (whether the release is due is left open)
ReleaseCheck ==
    /\ pc = "release"
    /\ \E releaseDue \in BOOLEAN :
          /\ pc' = IF releaseDue THEN "loop" ELSE "scheduler"
          /\ out' = IF releaseDue THEN PassEnd(out) ELSE out
    /\ SensorFrame /\ StoreFrame /\ ConfigFrame

\* if (configurationValid && currentTime - lastSensorSend >=
\* getSensorInterval()) { if (SERIAL || wifiConnected) sendSensorData();
\* lastSensorSend = currentTime; }   -- up to the call
Scheduler ==
    /\ pc = "scheduler"
    /\ IF configurationValid
          /\ USub(out.currentTime, out.lastSensorSend) >= getSensorInterval
       THEN IF currentConfig.protocol = "SERIAL" \/ wifiConnected
            THEN /\ pc' = "sendSensorData"
                 /\ out' = [out EXCEPT !.by = "scheduler",
                                       !.start = out.now, !.ret = "check"]
            ELSE /\ pc' = "check"
                 /\ out' = [out EXCEPT !.lastSensorSend = out.currentTime]
       ELSE /\ pc' = "check"
            /\ UNCHANGED out
    /\ SensorFrame /\ StoreFrame /\ ConfigFrame

\* What is remembered of a scheduled cycle: how it ended and, unless it
\* sent its reading, when it started.
CycleRecord(start, kind) ==
    [start |-> IF kind = "sent" THEN 0 ELSE start, kind |-> kind]

\* The DHT22 answers 30.5 C / 60.2 %.
LoopDhtReads == { <<Norm(305, -1), Norm(602, -1)>> }

\* How a call of sendSensorData ended.
CycleKind(r, netOk) ==
    IF FLt(r.aqi, Zero) THEN "skip"
    ELSE IF SenderFor(currentConfig.protocol) = "SERIAL" THEN "sent"
    ELSE IF SenderFor(currentConfig.protocol) = "none" THEN "failed"
    ELSE IF netOk THEN "sent" ELSE "failed"

\* lastSensorSend after the call of a scheduled cycle has returned.
StampNever(by, currentTime, now, old) == old

StampNow(by, currentTime, now, old) ==
    IF by = "scheduler" THEN now ELSE old

\* lastSensorSend = currentTime;
Stamp(by, currentTime, now, old) ==
    IF by = "scheduler" THEN currentTime ELSE old

\* sendSensorData (by the scheduler or the command send) or readSensorData
\* (by the command test) runs and returns; after a scheduled cycle
\* lastSensorSend = currentTime.
CycleReturn ==
    /\ pc = "sendSensorData"
    /\ pc' = out.ret
    /\ IF out.by # "test" /\ ~wifiConnected /\ currentConfig.protocol # "SERIAL"
       THEN /\ out' = [out EXCEPT
                         !.lastSensorSend =
                             Stamp(out.by, out.currentTime, out.now, @),
                         !.prev = IF out.by = "scheduler"
                                  THEN [start |-> out.start, kind |-> "failed"]
                                  ELSE @,
                         !.currentTime = IF out.ret = "loop" THEN 0 ELSE @,
                         !.by = "", !.ret = "", !.start = 0]
            /\ SensorFrame
       ELSE \E adc \in AdcTriples, dht \in LoopDhtReads, netOk \in BOOLEAN :
              /\ DhtWithinBound(dht)
              /\ \E r \in {readSensorData(adc, dht)} :
                   /\ lastValidTemp' = r.lastValidTemp
                   /\ lastValidHumidity' = r.lastValidHumidity
                   /\ dhtErrorCount' = r.dhtErrorCount
                   /\ out' = [out EXCEPT
                         !.lastSensorSend =
                             Stamp(out.by, out.currentTime, out.now, @),
                         !.prev = IF out.by = "scheduler"
                                  THEN CycleRecord(out.start,
                                                   CycleKind(r, netOk))
                                  ELSE @,
                         !.currentTime = IF out.ret = "loop" THEN 0 ELSE @,
                         !.by = "", !.ret = "", !.start = 0]
    /\ StoreFrame /\ ConfigFrame

\* if (currentTime - lastCheckTime < CHECK_INTERVAL) { delay(10); return; }
\* (whether the check is due is left open; no tag is in the field)
TagCheck ==
    /\ pc = "check"
    /\ \E checkDue \in BOOLEAN :
          /\ pc' = IF checkDue THEN "serial" ELSE "loop"
          /\ out' = IF checkDue THEN out ELSE PassEnd(out)
    /\ SensorFrame /\ StoreFrame /\ ConfigFrame

\* The serial handler taking a waiting calib command wherever the firmware
\* is, as an interrupt handler would.
SerialCommandAnywhere ==
    /\ pc \in {"serial", "kalibrasiSensor", "sampling", "tulisEEPROM",
              "sendSensorData"}
    /\ out.rx # <<>>
    /\ Head(out.rx) = "calib"
    /\ out.now + CalibMs <= MaxMillis
    /\ pc' = "kalibrasiSensor"
    /\ out' = [out EXCEPT !.rx = Tail(@), !.ret = "loop"]
    /\ SensorFrame /\ StoreFrame /\ ConfigFrame

\* if (Serial.available()) { cmd = Serial.readStringUntil('\n'); ... }
SerialCommand ==
    /\ pc = "serial"
    /\ IF out.rx = <<>>
       THEN /\ pc' = "loop"
            /\ out' = PassEnd(out)
            /\ StoreFrame /\ ConfigFrame
       ELSE \E cmd \in {Head(out.rx)} :
            IF cmd = "calib"
            THEN /\ out.now + CalibMs <= MaxMillis
                 /\ pc' = "kalibrasiSensor"
                 /\ out' = [out EXCEPT !.rx = Tail(@), !.ret = "loop"]
                 /\ StoreFrame /\ ConfigFrame
            ELSE IF cmd = "test" \/ (cmd = "send" /\ configurationValid)
            THEN /\ pc' = "sendSensorData"
                 /\ out' = [out EXCEPT !.rx = Tail(@), !.ret = "loop",
                                       !.by = cmd, !.start = out.now]
                 /\ StoreFrame /\ ConfigFrame
            ELSE /\ pc' = "loop"
                 /\ out' = PassEnd([out EXCEPT !.rx = Tail(@)])
                 /\ StoreFrame /\ ConfigFrame
    /\ SensorFrame

\* kalibrasiSensor: delay(3000);
CalibWait ==
    /\ pc = "kalibrasiSensor"
    /\ pc' = "sampling"
    /\ out' = [out EXCEPT !.now = @ + CalibWaitMs]
    /\ SensorFrame /\ StoreFrame /\ ConfigFrame

\* kalibrasiSensor: the for loop with its delay(200) and the three
\* assignments to Ro
CalibSample ==
    /\ pc = "sampling"
    /\ pc' = "tulisEEPROM"
    /\ \E ro \in {CalibrationResult[0]} :
          /\ Ro_MQ135' = ro[1]
          /\ Ro_MQ7' = ro[2]
          /\ Ro_MQ9' = ro[3]
    /\ out' = [out EXCEPT !.now = @ + CalibSampleMs]
    /\ UNCHANGED <<eeprom, flash, calibFlag, stmt, lastGood, lostAt,
                   calibrated>>
    /\ SensorFrame /\ ConfigFrame

\* kalibrasiSensor: tulisEEPROM(); delay(2000); and the return
CalibPersist ==
    /\ pc = "tulisEEPROM"
    /\ pc' = out.ret
    /\ \E s1 \in {tulisEEPROM(1, eeprom, flash)} :
       \E s2 \in {tulisEEPROM(2, s1[1], s1[2])} :
       \E s3 \in {tulisEEPROM(3, s2[1], s2[2])} :
       \E s4 \in {tulisEEPROM(4, s3[1], s3[2])} :
       \E s5 \in {tulisEEPROM(5, s4[1], s4[2])} :
          /\ eeprom' = s5[1]
          /\ flash' = s5[2]
    /\ lastGood' = [valid |-> TRUE, r135 |-> Ro_MQ135, r7 |-> Ro_MQ7,
                    r9 |-> Ro_MQ9]
    /\ calibrated' = TRUE
    /\ out' = [out EXCEPT !.now = @ + CalibRestMs, !.ret = "",
                          !.currentTime = IF out.ret = "loop" THEN 0 ELSE @]
    /\ UNCHANGED <<Ro_MQ135, Ro_MQ7, Ro_MQ9, calibFlag, stmt, lostAt>>
    /\ SensorFrame /\ ConfigFrame

LoopNext ==
    \/ Tick
    \/ SerialArrives
    \/ PassStart
    \/ ReleaseCheck
    \/ Scheduler
    \/ CycleReturn
    \/ TagCheck
    \/ SerialCommand
    \/ CalibWait
    \/ CalibSample
    \/ CalibPersist

LoopSpec == LoopInit /\ [][LoopNext]_vars

\* ---------------------------------------------------------------------------
\* Tag detection: a sixth specification.  `out` holds the tag in the
\* reader's field (field), the globals tagPresent, lastUID and lastRawData,
\* and a history of the checks: which UID the previous check detected
\* (seen), how often processNFCTag was called since that UID has been
\* detected without a break (calls), the raw data of the last call that took
\* its "new data" branch (lastProcessed), and the last check's call (call;
\* phase flips with every check).
\* ---------------------------------------------------------------------------

TagUids == { "04A1", "04B2" }

\* What the user pages of a tag hold: the three documents, and text without
\* a JSON object.
TagTexts == { "serial", "http", "nowifi", "nojson" }

\* readNTAGData when pages fail to read: text cut before the closing brace.
PartialText == "partial"

\* extractJSON(rawData).length() > 0
extractJSON(rawData) == rawData \in { "serial", "http", "nowifi" }

\* The document in the text of a tag.
TagDocument(rawData) ==
    IF rawData = "serial" THEN DocSerial
    ELSE IF rawData = "http" THEN DocHttp
    ELSE DocNoWifi

NoTag == [uid |-> "", data |-> ""]

NoCall == [made |-> FALSE, uid |-> "", rawData |-> "", seen |-> "",
           same |-> FALSE]

TagLocals ==
    [field |-> NoTag, tagPresent |-> FALSE, lastUID |-> "",
     lastRawData |-> "", phase |-> FALSE, seen |-> "", calls |-> 0,
     lastProcessed |-> "", call |-> NoCall]

TagImages == { ImageSerial, ImageNoWifi }

\* The device when setup() returns.
TagInit ==
    /\ pc = "loop"
    /\ flash \in TagImages
    /\ eeprom = flash
    /\ calibFlag = EepromRead(flash, ADDR_CALIB_FLAG).raw
    /\ lastGood = StoredCalibration(flash)
    /\ Ro_MQ135 = IF lastGood.valid THEN lastGood.r135 ELSE RoDefault
    /\ Ro_MQ7 = IF lastGood.valid THEN lastGood.r7 ELSE RoDefault
    /\ Ro_MQ9 = IF lastGood.valid THEN lastGood.r9 ELSE RoDefault
    /\ lastValidTemp = TempDefault
    /\ lastValidHumidity = HumDefault
    /\ dhtErrorCount = 0
    /\ currentConfig = loadConfigFromEEPROM(flash, EmptyConfig).cfg
    /\ configurationValid = loadConfigFromEEPROM(flash, EmptyConfig).ok
    /\ configLoadedFromEEPROM = configurationValid
    /\ wifiConnected = FALSE
    /\ stmt = 0
    /\ out = TagLocals
    /\ lostAt = 0
    /\ calibrated = FALSE

TagFrame ==
    UNCHANGED <<pc, Ro_MQ135, Ro_MQ7, Ro_MQ9, lastValidTemp,
                lastValidHumidity, dhtErrorCount, calibFlag, stmt, lastGood,
                lostAt, calibrated>>

\* A tag is put on the reader, or takes the place of the one there.
PresentTag ==
    /\ pc = "loop"
    /\ \E uid \in TagUids, data \in TagTexts :
          out' = [out EXCEPT !.field = [uid |-> uid, data |-> data]]
    /\ ConfigFrame
    /\ UNCHANGED <<eeprom, flash>>
    /\ TagFrame

\* The tag is taken away.
WithdrawTag ==
    /\ pc = "loop"
    /\ out.field # NoTag
    /\ out' = [out EXCEPT !.field = NoTag]
    /\ ConfigFrame
    /\ UNCHANGED <<eeprom, flash>>
    /\ TagFrame

\* processNFCTag with rawData read from the tag: the globals it leaves.
\* (lastSensorSend = millis() of the accepted branch is not followed here.)
processNFCTag(lastRawData, rawData, joined) ==
    LET same == [lastRawData |-> lastRawData, currentConfig |-> currentConfig,
                 configurationValid |-> configurationValid,
                 configLoadedFromEEPROM |-> configLoadedFromEEPROM,
                 wifiConnected |-> wifiConnected, eeprom |-> eeprom,
                 flash |-> flash]
    IN  IF rawData = "" THEN same
        ELSE IF rawData = lastRawData THEN same
        ELSE IF ~extractJSON(rawData)
        THEN [same EXCEPT !.lastRawData = rawData,
                          !.configurationValid = FALSE]
        ELSE LET cfg == ConfigFromDoc(TagDocument(rawData))
                 mem == saveConfigToEEPROM(eeprom, cfg)
             IN  IF ~ConfigAccepted(cfg)
                 THEN [same EXCEPT !.lastRawData = rawData,
                                   !.currentConfig = cfg,
                                   !.configurationValid = FALSE]
                 ELSE [lastRawData |-> rawData, currentConfig |-> cfg,
                       configurationValid |-> TRUE,
                       configLoadedFromEEPROM |-> FALSE,
                       wifiConnected |->
                           IF cfg.protocol # "SERIAL" THEN joined
                           ELSE wifiConnected,
                       eeprom |-> mem,
                       flash |-> IF Len(configToJSON(cfg)) > MAX_CONFIG_SIZE
                                 THEN flash ELSE mem]

\* The branch of the tag check: "new" (a tag after none), "different",
\* "same", "removed" or "none".
TagBranchByUidOnly(detected, uid, tagPresent, lastUID) ==
    IF detected
    THEN IF uid # lastUID THEN (IF tagPresent THEN "different" ELSE "new")
         ELSE "new"
    ELSE IF tagPresent THEN "removed" ELSE "none"

TagBranch(detected, uid, tagPresent, lastUID) ==
    IF detected
    THEN IF ~tagPresent THEN "new"
         ELSE IF uid # lastUID THEN "different"
         ELSE "same"
    ELSE IF tagPresent THEN "removed" ELSE "none"

\* The globals after a call of processNFCTag, and the history.
AfterCall(l, r, uid, rawData) ==
    [l EXCEPT
        !.tagPresent = TRUE, !.lastUID = uid,
        !.lastRawData = r.lastRawData,
        !.phase = ~@,
        !.calls = IF l.seen = uid THEN @ + 1 ELSE 1,
        !.seen = uid,
        !.lastProcessed = IF rawData # "" /\ r.lastRawData # l.lastRawData
                          THEN rawData ELSE @,
        !.call = [made |-> TRUE, uid |-> uid, rawData |-> rawData,
                  seen |-> l.seen,
                  same |-> rawData # "" /\ rawData = l.lastRawData]]

\* loop(): tagDetected = nfc.readPassiveTargetID(...) and what follows, to
\* the end of the tag check.  A tag in the field may be missed by one check;
\* readNTAGData returns the tag's text, a part of it, or nothing.
TagPass ==
    /\ pc = "loop"
    /\ \E detected \in IF out.field = NoTag THEN {FALSE} ELSE BOOLEAN,
          rawData \in {out.field.data, PartialText, ""},
          joined \in BOOLEAN :
       \E branch \in {TagBranch(detected, out.field.uid, out.tagPresent,
                                out.lastUID)} :
          IF branch \in {"new", "different"}
          THEN \E r \in {processNFCTag(IF branch = "different" THEN ""
                                       ELSE out.lastRawData,
                                       rawData, joined)} :
                 /\ out' = AfterCall([out EXCEPT !.lastRawData =
                                         IF branch = "different" THEN ""
                                         ELSE @],
                                     r, out.field.uid, rawData)
                 /\ currentConfig' = r.currentConfig
                 /\ configurationValid' = r.configurationValid
                 /\ configLoadedFromEEPROM' = r.configLoadedFromEEPROM
                 /\ wifiConnected' = r.wifiConnected
                 /\ eeprom' = r.eeprom
                 /\ flash' = r.flash
          ELSE /\ out' = [out EXCEPT
                            !.tagPresent = IF branch = "removed" THEN FALSE
                                           ELSE @,
                            !.lastUID = IF branch = "removed" THEN "" ELSE @,
                            !.phase = ~@,
                            !.seen = IF detected THEN out.field.uid ELSE "",
                            !.calls = IF detected THEN @ ELSE 0,
                            !.call = NoCall]
               /\ ConfigFrame
               /\ UNCHANGED <<eeprom, flash>>
    /\ TagFrame

TagNext ==
    \/ PresentTag
    \/ WithdrawTag
    \/ TagPass
    \/ CommandClearConfig

TagSpec == TagInit /\ [][TagNext]_vars

\* ---------------------------------------------------------------------------
\* Dashboard: device management (src/app.js deviceManager, mqttManager).
\* DeviceSpec runs the browser's add / update / delete handlers over the
\* device list, its localStorage copy and the MQTT client's subscriptions.
\* The firmware variables are idle; the dashboard state is the record `out`.
\* ---------------------------------------------------------------------------
MaxDevices == 3

DeviceIds == {"esp-1", "esp-2"}

DeviceNames == {"", "node"}

LocationNames == {"", "lab"}

TopicInputs == {"", "air/a", "air/b"}

\* JavaScript truthiness of a form field's string.
Truthy(s) == s # ""

\* mqttTopic: input || `sensors/${deviceName}`
DefaultTopic(topicInput, deviceName) ==
    IF Truthy(topicInput) THEN topicInput ELSE "sensors/" \o deviceName

\* The MQTT client keeps one subscription per topic filter; an empty filter is
\* rejected by the client and changes nothing.
subscribe(subs, topic) == IF topic = "" THEN subs ELSE subs \cup {topic}

unsubscribe(subs, topic) == subs \ {topic}

\* state.devices.find(d => d.deviceId === deviceId): index of the first, or 0.
FindDevice(devices, deviceId) ==
    LET hits == { i \in 1..Len(devices) : devices[i].deviceId = deviceId }
    IN  IF hits = {} THEN 0 ELSE CHOOSE i \in hits : \A j \in hits : i <= j

\* state.devices.filter(d => d.deviceId !== deviceId)
RECURSIVE RemoveDevice(_, _)
RemoveDevice(devices, deviceId) ==
    IF devices = <<>> THEN <<>>
    ELSE IF Head(devices).deviceId = deviceId
         THEN RemoveDevice(Tail(devices), deviceId)
         ELSE <<Head(devices)>> \o RemoveDevice(Tail(devices), deviceId)

NoOp == [name |-> "none", refused |-> "none"]

DeviceLocals ==
    [devices |-> <<>>, stored |-> <<>>, subscribed |-> {}, mqttClient |-> TRUE,
     op |-> NoOp, phase |-> 0]

BrowserFrame ==
    UNCHANGED <<pc, Ro_MQ135, Ro_MQ7, Ro_MQ9, lastValidTemp,
                lastValidHumidity, dhtErrorCount, currentConfig,
                configurationValid, configLoadedFromEEPROM, wifiConnected,
                eeprom, flash, calibFlag, stmt, lastGood, lostAt, calibrated>>

BrowserIdle ==
    /\ pc = "browser"
    /\ flash = ImageSerial
    /\ eeprom = flash
    /\ calibFlag = EepromRead(flash, ADDR_CALIB_FLAG).raw
    /\ lastGood = StoredCalibration(flash)
    /\ Ro_MQ135 = RoDefault
    /\ Ro_MQ7 = RoDefault
    /\ Ro_MQ9 = RoDefault
    /\ lastValidTemp = TempDefault
    /\ lastValidHumidity = HumDefault
    /\ dhtErrorCount = 0
    /\ currentConfig = EmptyConfig
    /\ configurationValid = FALSE
    /\ configLoadedFromEEPROM = FALSE
    /\ wifiConnected = FALSE
    /\ stmt = 0
    /\ lostAt = 0
    /\ calibrated = FALSE

\* The page has loaded with no stored devices; mqtt.connect either returned a
\* client or threw and left state.mqttClient null.
DeviceInit ==
    /\ BrowserIdle
    /\ \E client \in BOOLEAN : out = [DeviceLocals EXCEPT !.mqttClient = client]

\* Why a form submission is to be turned down, judged on the form alone and
\* the list before the call: an empty required field, or a deviceId that is
\* already registered.
Refusal(devices, deviceId, deviceName, locationName) ==
    IF deviceId = "" \/ deviceName = "" \/ locationName = "" THEN "empty"
    ELSE IF \E i \in 1..Len(devices) : devices[i].deviceId = deviceId
    THEN "duplicate"
    ELSE "none"

\* A member that is missing from a parsed object, and the JSON value null.
Undefined == [t |-> "undefined", v |-> 0]

Null == [json |-> "null", aqi |-> Undefined]

NewDevice(deviceId, deviceName, locationName, topicInput) ==
    [deviceId |-> deviceId, deviceName |-> deviceName,
     locationName |-> locationName,
     mqttTopic |-> DefaultTopic(topicInput, deviceName),
     lastUpdate |-> 0, lastData |-> Null]

\* deviceManager.addDevice with the duplicate check left out.
addDeviceUnchecked(l, device) ==
    IF ~Truthy(device.deviceId) \/ ~Truthy(device.deviceName)
           \/ ~Truthy(device.locationName)
    THEN l
    ELSE LET devices == Append(l.devices, device)
         IN  [l EXCEPT !.devices = devices,
                       !.stored = devices,
                       !.subscribed = IF l.mqttClient /\ Truthy(device.mqttTopic)
                                      THEN subscribe(@, device.mqttTopic)
                                      ELSE @]

\* deviceManager.addDevice: validate, refuse a duplicate, push, saveDevices,
\* subscribe.
addDevice(l, device) ==
    IF ~Truthy(device.deviceId) \/ ~Truthy(device.deviceName)
           \/ ~Truthy(device.locationName)
    THEN l
    ELSE IF FindDevice(l.devices, device.deviceId) # 0
    THEN l
    ELSE LET devices == Append(l.devices, device)
         IN  [l EXCEPT !.devices = devices,
                       !.stored = devices,
                       !.subscribed = IF l.mqttClient /\ Truthy(device.mqttTopic)
                                      THEN subscribe(@, device.mqttTopic)
                                      ELSE @]

\* deviceManager.updateDevice: the entry of the form's deviceId keeps its
\* deviceId, lastData and lastUpdate and takes the form's other fields; the
\* topic input is stored as typed.
updateDevice(l, deviceId, deviceName, locationName, topicInput) ==
    LET deviceIndex == FindDevice(l.devices, deviceId)
    IN  IF deviceIndex = 0
        THEN l
        ELSE LET oldDevice == l.devices[deviceIndex]
                 devices == [l.devices EXCEPT ![deviceIndex] =
                                [oldDevice EXCEPT !.deviceName = deviceName,
                                                  !.locationName = locationName,
                                                  !.mqttTopic = topicInput]]
             IN  [l EXCEPT !.devices = devices,
                           !.stored = devices,
                           !.subscribed =
                               IF oldDevice.mqttTopic # topicInput /\ l.mqttClient
                               THEN subscribe(unsubscribe(@, oldDevice.mqttTopic),
                                              topicInput)
                               ELSE @]

\* deviceManager.deleteDevice after the confirm dialog was accepted.
deleteDevice(l, deviceId) ==
    LET found == FindDevice(l.devices, deviceId)
        devices == RemoveDevice(l.devices, deviceId)
    IN  [l EXCEPT !.subscribed =
                      IF found # 0 /\ Truthy(l.devices[found].mqttTopic)
                             /\ l.mqttClient
                      THEN unsubscribe(@, l.devices[found].mqttTopic)
                      ELSE @,
                  !.devices = devices,
                  !.stored = devices]

Logged(l, name, refused) ==
    [l EXCEPT !.op = [name |-> name, refused |-> refused],
              !.phase = 1 - @]

\* The add form is submitted.
AddDevice ==
    /\ pc = "browser"
    /\ \E deviceId \in DeviceIds \cup {""}, deviceName \in DeviceNames,
          locationName \in LocationNames, topicInput \in TopicInputs :
          LET device == NewDevice(deviceId, deviceName, locationName, topicInput)
              after == addDevice(out, device)
          IN  /\ Len(after.devices) <= MaxDevices
              /\ out' = Logged(after, "addDevice",
                               Refusal(out.devices, deviceId, deviceName,
                                       locationName))
    /\ BrowserFrame

\* The edit form is submitted.
UpdateDevice ==
    /\ pc = "browser"
    /\ \E deviceId \in DeviceIds, deviceName \in DeviceNames,
          locationName \in LocationNames \ {""}, topicInput \in TopicInputs :
          out' = Logged(updateDevice(out, deviceId, deviceName, locationName,
                                     topicInput),
                        "updateDevice", "none")
    /\ BrowserFrame

\* The delete button is pressed; the confirm dialog is accepted or dismissed.
DeleteDevice ==
    /\ pc = "browser"
    /\ \E deviceId \in DeviceIds, confirm \in BOOLEAN :
          out' = Logged(IF confirm THEN deleteDevice(out, deviceId) ELSE out,
                        "deleteDevice", "none")
    /\ BrowserFrame

DeviceNext ==
    \/ AddDevice
    \/ UpdateDevice
    \/ DeleteDevice

DeviceSpec == DeviceInit /\ [][DeviceNext]_vars

\* ---------------------------------------------------------------------------
\* Dashboard: incoming MQTT messages (src/app.js mqttManager.handleMessage,
\* storage.saveSensorData, alertManager.checkThresholds).
\* MessageSpec delivers messages to a page that holds a fixed device list.
\* ---------------------------------------------------------------------------
MaxMessages == 3

HistoryLimit == 1000

AqiWarning == 50

AqiDanger == 100

MessageTopics == {"air/a", "air/b", "air/c"}

Num(v) == [t |-> "number", v |-> v]

Str(v) == [t |-> "string", v |-> v]

\* What JSON.parse makes of the payload: a throw, null, or an object whose aqi
\* member is missing, a number, or a string of digits.
Payloads ==
    { [json |-> "invalid", aqi |-> Undefined],
      Null,
      [json |-> "object", aqi |-> Undefined],
      [json |-> "object", aqi |-> Num(20)],
      [json |-> "object", aqi |-> Num(120)],
      [json |-> "object", aqi |-> Str(120)] }

\* data.aqi || 0
OrZero(x) ==
    IF x.t = "undefined" \/ (x.t = "number" /\ x.v = 0) THEN Num(0) ELSE x

\* data.aqi >= threshold: undefined compares false, a string of digits is
\* converted to its number.
AtLeast(x, threshold) == x.t # "undefined" /\ x.v >= threshold

\* history.push(data) with the cut taken from the front: slice(0, 1000).
PushHistoryKeepOldest(history, data) ==
    LET pushed == Append(history, data)
    IN  IF Len(pushed) > HistoryLimit
        THEN SubSeq(pushed, 1, HistoryLimit)
        ELSE pushed

\* history.push(data); history.slice(-1000) once it is longer than 1000.
PushHistory(history, data) ==
    LET pushed == Append(history, data)
    IN  IF Len(pushed) > HistoryLimit
        THEN SubSeq(pushed, Len(pushed) - HistoryLimit + 1, Len(pushed))
        ELSE pushed

\* storage.saveSensorData on the page state l: the stored list is parsed,
\* extended, cut and written back, and only then copied to
\* state.sensorDataHistory; a setItem refused by a full localStorage throws
\* before either is replaced.
saveSensorData(l, data, full) ==
    LET history == PushHistory(l.storedHistory, data)
    IN  IF full
        THEN [l EXCEPT !.thrown = TRUE]
        ELSE [l EXCEPT !.storedHistory = history,
                       !.sensorDataHistory = history]

\* storage.saveDevices
saveDevices(l, full) ==
    IF full THEN [l EXCEPT !.thrown = TRUE] ELSE [l EXCEPT !.stored = l.devices]

\* alertManager.checkThresholds for the aqi member: toFixed exists on numbers
\* only, so a string at or above a threshold throws before anything is pushed.
checkThresholds(l, device, data) ==
    LET level == IF AtLeast(data.aqi, AqiDanger) THEN "danger"
                 ELSE IF AtLeast(data.aqi, AqiWarning) THEN "warning"
                 ELSE "none"
    IN  IF level = "none" THEN l
        ELSE IF data.aqi.t # "number" THEN [l EXCEPT !.thrown = TRUE]
        ELSE [l EXCEPT !.alerts = Append(@, [deviceName |-> device.deviceName,
                                            messages |-> <<level>>,
                                            timestamp |-> l.now])]

\* state.devices.find(d => d.mqttTopic === topic): index of the first, or 0.
FindTopic(devices, topic) ==
    LET hits == { i \in 1..Len(devices) : devices[i].mqttTopic = topic }
    IN  IF hits = {} THEN 0 ELSE CHOOSE i \in hits : \A j \in hits : i <= j

\* The statements inside the try block of handleMessage, up to the first one
\* that throws.
HandleBody(l, topic, data, full) ==
    IF data.json = "invalid" THEN [l EXCEPT !.thrown = TRUE]
    ELSE LET i == FindTopic(l.devices, topic)
         IN  IF i = 0 THEN l
             ELSE LET assigned == [l EXCEPT !.devices[i].lastData = data,
                                            !.devices[i].lastUpdate = l.now]
                      device == assigned.devices[i]
                      saved == saveSensorData(assigned,
                                   [timestamp |-> l.now,
                                    deviceName |-> device.deviceName,
                                    location |-> device.locationName,
                                    aqi |-> OrZero(data.aqi)], full)
                      kept == IF saved.thrown THEN saved
                              ELSE saveDevices(saved, full)
                  IN  IF data.json = "null" THEN [assigned EXCEPT !.thrown = TRUE]
                      ELSE IF kept.thrown THEN kept
                      ELSE checkThresholds(kept, device, data)

\* handleMessage without its try / catch.
handleMessageUncaught(l, topic, data, full) ==
    LET done == HandleBody(l, topic, data, full)
    IN  [done EXCEPT !.escaped = done.thrown, !.thrown = FALSE]

\* mqttManager.handleMessage: whatever the body throws is caught and logged.
handleMessage(l, topic, data, full) ==
    LET done == HandleBody(l, topic, data, full)
    IN  [done EXCEPT !.escaped = FALSE, !.thrown = FALSE]

Registered(deviceId, topic) ==
    [NewDevice(deviceId, "node", "lab", topic) EXCEPT !.mqttTopic = topic]

\* Device lists the page can hold: two topics, one shared topic, and a device
\* whose topic was emptied by an edit.
MessageDevices ==
    { <<Registered("esp-1", "air/a"), Registered("esp-2", "air/b")>>,
      <<Registered("esp-1", "air/a"), Registered("esp-2", "air/a")>>,
      <<Registered("esp-1", ""), Registered("esp-2", "air/b")>> }

MessageLocals ==
    [devices |-> <<>>, stored |-> <<>>, sensorDataHistory |-> <<>>,
     storedHistory |-> <<>>, alerts |-> <<>>, now |-> 1, thrown |-> FALSE,
     escaped |-> FALSE, op |-> [name |-> "none", topic |-> "", json |-> "null"],
     phase |-> 0]

MessageInit ==
    /\ BrowserIdle
    /\ \E devices \in MessageDevices :
          out = [MessageLocals EXCEPT !.devices = devices, !.stored = devices]

\* A message arrives on a topic; Date.now() has moved on since the last one.
HandleMessage ==
    /\ pc = "browser"
    /\ out.now <= MaxMessages
    /\ \E topic \in MessageTopics, data \in Payloads, full \in BOOLEAN :
          out' = [handleMessage(out, topic, data, full) EXCEPT
                      !.now = @ + 1,
                      !.op = [name |-> "handleMessage", topic |-> topic,
                              json |-> data.json],
                      !.phase = 1 - @]
    /\ BrowserFrame

MessageNext == HandleMessage

MessageSpec == MessageInit /\ [][MessageNext]_vars

\* ---------------------------------------------------------------------------
\* Dashboard: the sensor-data history (src/app.js storage.saveSensorData).
\* HistorySpec loads a page over a history left by earlier sessions and saves
\* records one after another; localStorage may refuse a write.
\* ---------------------------------------------------------------------------
MaxSaves == 5

\* Lengths of the stored history when the page loads.
HistoryStarts == {0, HistoryLimit - 3, HistoryLimit}

\* Earlier records carry their arrival numbers 1..k.
EarlierRecords(k) == [i \in 1..k |-> i]

HistoryLocals ==
    [sensorDataHistory |-> <<>>, storedHistory |-> <<>>, thrown |-> FALSE,
     accepted |-> <<>>, arrivals |-> 0, saves |-> 0]

\* DOMContentLoaded: loadSensorData copies the stored list into the page state.
HistoryInit ==
    /\ BrowserIdle
    /\ \E k \in HistoryStarts :
          out = [HistoryLocals EXCEPT !.sensorDataHistory = EarlierRecords(k),
                                      !.storedHistory = EarlierRecords(k),
                                      !.accepted = EarlierRecords(k),
                                      !.arrivals = k]

\* One call of saveSensorData with the next record; `accepted` lists, in
\* arrival order, the records whose call returned normally.
SaveSensorData ==
    /\ pc = "browser"
    /\ out.saves < MaxSaves
    /\ \E full \in BOOLEAN :
          LET data == out.arrivals + 1
              done == saveSensorData(out, data, full)
          IN  out' = [done EXCEPT !.thrown = FALSE,
                                  !.accepted = IF done.thrown THEN @
                                               ELSE Append(@, data),
                                  !.arrivals = data,
                                  !.saves = @ + 1]
    /\ BrowserFrame

HistoryNext == SaveSensorData

HistorySpec == HistoryInit /\ [][HistoryNext]_vars

\* ---------------------------------------------------------------------------
\* Properties
\* ---------------------------------------------------------------------------

\* setup() has run past bacaEEPROM.
Booted ==
    pc \in {"loop", "sendSensorData", "kalibrasiSensor", "tulisEEPROM",
            "halt_nfc"}

\* A sampling cycle of sendSensorData has run and has not returned.
InCycle == pc = "sendSensorData" /\ out.kind \in {"skip", "reading"}

Baselines == <<Ro_MQ135, Ro_MQ7, Ro_MQ9>>

\* C1: a sampling cycle builds no JSON document and invokes no sender if and
\* only if one of the three raw values is above 4095; in every other case
\* (raw values 0..4, any baselines, any outcome of the DHT read) it builds a
\* complete document carrying the raw values.
C1_NoReadingIffAdcAboveMax ==
    InCycle =>
        LET over == \E ch \in 1..3 : out.adc[ch] > 4095
            nothing == ~out.json.built /\ out.sender = "none"
        IN  /\ nothing <=> over
            /\ ~over => /\ out.kind = "reading"
                        /\ out.json.built
                        /\ out.json.status # ""
                        /\ <<out.json.adc_MQ135, out.json.adc_MQ7,
                             out.json.adc_MQ9>> = out.adc

\* A cycle skipped because the first raw value is above the converter's range.
C1_Witness ==
    /\ InCycle
    /\ out.kind = "skip"
    /\ out.adc[1] > 4095
    /\ ~out.json.built

\* C2: when the marker byte read at boot is not CALIB_MAGIC, the three
\* baselines stay 10.0 whatever the payload bytes are, and a cycle with
\* in-range raw values builds a reading whose concentrations are those of
\* Ro = 10.0 on every channel.
C2_InvalidMarkerKeepsDefaults ==
    (Booted /\ calibFlag # CALIB_MAGIC /\ ~calibrated) =>
        /\ Baselines = <<RoDefault, RoDefault, RoDefault>>
        /\ (InCycle /\ \A ch \in 1..3 : out.adc[ch] <= 4095) =>
              /\ out.json.built
              /\ out.json.ro_MQ135 = FromInt(10)
              /\ out.json.ro_MQ7 = FromInt(10)
              /\ out.json.ro_MQ9 = FromInt(10)
              /\ out.json.ppm_MQ135 =
                     Round1(SubstituteFloor(hitungKonsentrasi(
                         hitungRs(out.adc[1]), FromInt(10),
                         MQ135_A, MQ135_B)))
              /\ out.json.ppm_MQ7 =
                     Round1(SubstituteFloor(hitungKonsentrasi(
                         hitungRs(out.adc[2]), FromInt(10), MQ7_A, MQ7_B)))
              /\ out.json.ppm_MQ9 =
                     Round1(SubstituteFloor(hitungKonsentrasi(
                         hitungRs(out.adc[3]), FromInt(10), MQ9_A, MQ9_B)))

\* A reading built after a boot that found marker byte 0 over a payload.
C2_Witness ==
    /\ InCycle
    /\ out.kind = "reading"
    /\ calibFlag = 0
    /\ ~calibrated
    /\ EepromGet(flash, ADDR_RO_MQ135) = Norm(85, -1)

\* C3 (as the specification states it): in every state each of the three
\* baselines is greater than 0.
C3_BaselinesPositive ==
    /\ FGt(Ro_MQ135, Zero)
    /\ FGt(Ro_MQ7, Zero)
    /\ FGt(Ro_MQ9, Zero)

\* C4: after power was lost inside tulisEEPROM (after its first write and
\* before its commit), the boot that follows finds either the marker valid
\* and exactly the three baselines last stored whole, or the marker invalid
\* and the defaults; never a valid marker over a mix of old and new
\* baselines.
C4_PowerLossLeavesOldOrInvalid ==
    (Booted /\ ~calibrated /\ lostAt > 1) =>
        \/ /\ calibFlag = CALIB_MAGIC
           /\ lastGood.valid
           /\ Baselines = <<lastGood.r135, lastGood.r7, lastGood.r9>>
        \/ /\ calibFlag # CALIB_MAGIC
           /\ Baselines = <<RoDefault, RoDefault, RoDefault>>

\* Power was lost between the last payload write and the marker write of a
\* run that overwrote a valid calibration, and the device has booted again.
C4_Witness ==
    /\ pc = "loop"
    /\ ~calibrated
    /\ lostAt = 4
    /\ calibFlag = CALIB_MAGIC
    /\ lastGood.valid

\* C5: once tulisEEPROM has run to its end the stored image holds a valid
\* marker and the three baselines in memory, each at its own address; and
\* a boot that follows a whole store restores exactly those three values,
\* each to its own channel.
C5_RoundTrip ==
    /\ (pc = "loop" /\ calibrated) =>
           /\ EepromRead(flash, ADDR_CALIB_FLAG).raw = CALIB_MAGIC
           /\ EepromGet(flash, ADDR_RO_MQ135) = Ro_MQ135
           /\ EepromGet(flash, ADDR_RO_MQ7) = Ro_MQ7
           /\ EepromGet(flash, ADDR_RO_MQ9) = Ro_MQ9
    /\ (Booted /\ ~calibrated /\ lastGood.valid) =>
           Baselines = <<lastGood.r135, lastGood.r7, lastGood.r9>>

\* The baselines of a calibration run with one disturbed sample, restored by
\* a boot after the run stored them.
C5_Witness ==
    /\ pc = "loop"
    /\ ~calibrated
    /\ lostAt = 0
    /\ lastGood.valid
    /\ Baselines = CalibrationResult[1]
    /\ Ro_MQ135 # RoDefault

\* C6 (as the specification states it): the status of every emitted reading
\* with an index in [0, 500] is the label the dashboard's getAqiStatus
\* computes from the aqi value of the same document.
C6_StatusAgreesWithDashboard ==
    (InCycle /\ out.kind = "reading"
        /\ FGe(out.json.aqi, Zero) /\ FLe(out.json.aqi, FromInt(500))) =>
        out.json.status = getAqiStatus(out.json.aqi)

\* The label the claim's tiers give a score >= 0.
TierOf(score) ==
    CHOOSE label \in {"Baik", "Sedang", "Tidak Sehat", "Sangat Tidak Sehat",
                      "Berbahaya"} :
        \/ label = "Baik" /\ FGe(score, Zero) /\ FLt(score, FromInt(20))
        \/ label = "Sedang" /\ FGe(score, FromInt(20))
                            /\ FLt(score, FromInt(50))
        \/ label = "Tidak Sehat" /\ FGe(score, FromInt(50))
                                 /\ FLt(score, FromInt(100))
        \/ label = "Sangat Tidak Sehat" /\ FGe(score, FromInt(100))
                                        /\ FLt(score, FromInt(200))
        \/ label = "Berbahaya" /\ FGe(score, FromInt(200))

\* C7: getStatusUdara gives every score >= 0 the label of its tier, [0,20)
\* Baik, [20,50) Sedang, [50,100) Tidak Sehat, [100,200) Sangat Tidak Sehat,
\* [200,inf) Berbahaya, each threshold belonging to the upper tier; the
\* dashboard's getAqiStatus gives the same label.
C7_StatusTiers ==
    (pc = "math" /\ out.fn = "getStatusUdara") =>
        /\ out.res[1] = TierOf(out.args[1])
        /\ out.res[2] = TierOf(out.args[1])
        /\ out.args[1] = FromInt(20) => out.res[1] = "Sedang"
        /\ out.args[1] = FromInt(50) => out.res[1] = "Tidak Sehat"
        /\ out.args[1] = FromInt(100) => out.res[1] = "Sangat Tidak Sehat"
        /\ out.args[1] = FromInt(200) => out.res[1] = "Berbahaya"

\* getStatusUdara applied to the threshold 20.
C7_Witness ==
    /\ pc = "math"
    /\ out.fn = "getStatusUdara"
    /\ out.args[1] = FromInt(20)
    /\ out.res[1] = "Sedang"

\* C8: raising one concentration while the other two stay fixed never
\* lowers hitungAQI, and hitungAQI of non-negative concentrations never
\* exceeds 500.
C8_IndexMonotoneAndCapped ==
    (pc = "math" /\ out.fn = "hitungAQI") =>
        /\ FLe(out.res[1], out.res[2])
        /\ FLe(out.res[1], FromInt(500))
        /\ FLe(out.res[2], FromInt(500))

\* hitungAQI strictly raised by a higher MQ9 concentration, and capped at
\* 500 for the higher one.
C8_Witness ==
    /\ pc = "math"
    /\ out.fn = "hitungAQI"
    /\ FLt(out.args[1][3], out.args[2][3])
    /\ FLt(out.res[1], out.res[2])
    /\ out.res[2] = FromInt(500)

\* C9 (as the specification states it): for every finite Rs > 0 and Ro > 0
\* and each channel's coefficients, hitungKonsentrasi returns a value in
\* [0.1, 10000].
C9_ConcentrationInRange ==
    (pc = "math" /\ out.fn = "hitungKonsentrasi"
        /\ IsNum(out.args[1]) /\ FGt(out.args[1], Zero)
        /\ IsNum(out.args[2]) /\ FGt(out.args[2], Zero)) =>
        /\ FGe(out.res[1], MIN_PPM_THRESHOLD)
        /\ FLe(out.res[1], FromInt(10000))

\* C10: hitungKonsentrasi returns -1 whenever Ro <= 0, whatever Rs is, and
\* whenever Ro > 0 and Rs / Ro <= 0; it returns -1 in no other case, and
\* every other result that is a number is at least the floor 0.1.
C10_InvalidSentinel ==
    (pc = "math" /\ out.fn = "hitungKonsentrasi") =>
        LET Rs == out.args[1]
            Ro == out.args[2]
            invalid == \/ FLe(Ro, Zero)
                       \/ FGt(Ro, Zero) /\ FLe(FDiv(Rs, Ro), Zero)
        IN  /\ invalid <=> out.res[1] = FromInt(-1)
            /\ ~invalid => ~FLt(out.res[1], MIN_PPM_THRESHOLD)

\* hitungKonsentrasi applied to a zero baseline and a valid resistance.
C10_Witness ==
    /\ pc = "math"
    /\ out.fn = "hitungKonsentrasi"
    /\ out.args[2] = Zero
    /\ FGt(out.args[1], Zero)
    /\ out.res[1] = FromInt(-1)

\* C11: hitungRs(0) is exactly 999999, a finite number: the division by the
\* zero voltage is not performed.
C11_ZeroAdcSentinel ==
    (pc = "math" /\ out.fn = "hitungRs" /\ out.args[1] = 0) =>
        /\ out.res[1] = FromInt(999999)
        /\ IsNum(out.res[1])

\* hitungRs applied to 0, where the voltage divider alone divides by zero.
C11_Witness ==
    /\ pc = "math"
    /\ out.fn = "hitungRs"
    /\ out.args[1] = 0
    /\ out.res[1] = FromInt(999999)
    /\ ~IsNum(out.res[2])

\* C12 (as the specification states it): for every adcValue in 1..4095
\* hitungRs returns a finite resistance greater than 0 and at least 0.1,
\* the floor replacing the computed value exactly when the voltage divider's
\* result is not positive, as for adcValue = 4095.
C12_ResistanceAtLeastFloor ==
    (pc = "math" /\ out.fn = "hitungRs" /\ out.args[1] >= 1) =>
        /\ IsNum(out.res[1])
        /\ FGt(out.res[1], Zero)
        /\ FGe(out.res[1], Norm(1, -1))
        /\ out.res[1] = IF FLe(out.res[2], Zero) THEN Norm(1, -1)
                        ELSE out.res[2]
        /\ out.args[1] = ADC_MAX => out.res[1] = Norm(1, -1)

\* C12 (amended): for every adcValue in 1..4095 hitungRs returns a finite
\* resistance greater than 0: the voltage divider's result when that is
\* positive, however small, and 0.1 when it is not positive.
C12_ResistancePositive ==
    (pc = "math" /\ out.fn = "hitungRs" /\ out.args[1] >= 1) =>
        /\ IsNum(out.res[1])
        /\ FGt(out.res[1], Zero)
        /\ out.res[1] = IF FLe(out.res[2], Zero) THEN Norm(1, -1)
                        ELSE out.res[2]

\* hitungRs applied to a raw value just below full scale: the divider's
\* result is positive and below 0.1, and is returned as it is.
C12_Witness ==
    /\ pc = "math"
    /\ out.fn = "hitungRs"
    /\ out.args[1] = ADC_MAX - 1
    /\ FGt(out.res[1], Zero)
    /\ FLt(out.res[1], Norm(1, -1))
    /\ out.res[1] = out.res[2]

\* A group of statements has run in the current cycle.
Ran(stage) == \E i \in 1..Len(out.trace) : out.trace[i] = stage

\* C13: after a failed environmental read the cycle's temperature and
\* humidity are the pair stored before the cycle, the stored pair is
\* unchanged, dhtErrorCount is one more than before, and the cycle goes on to
\* emit its reading with that pair.
C13_FailedReadUsesLastGood ==
    (pc \in {"Emit", "done"} /\ Ran("ReadEnvironmental")
        /\ DhtFailed(out.dht)) =>
        /\ out.temp = out.before[1]
        /\ out.hum = out.before[2]
        /\ lastValidTemp = out.before[1]
        /\ lastValidHumidity = out.before[2]
        /\ dhtErrorCount = out.before[3] + 1
        /\ pc = "done" =>
              /\ out.kind = "reading"
              /\ out.json.temp = Round1(out.before[1])
              /\ out.json.humidity = Round1(out.before[2])

\* A second failed read in a row (NaN) after a good one of 30.5 C: the
\* reading carries 30.5 C and the counter is 2.
C13_Witness ==
    /\ pc = "done"
    /\ out.kind = "reading"
    /\ IsNaN(out.dht[1])
    /\ out.before = <<Norm(305, -1), Norm(602, -1), 1>>
    /\ out.json.temp = Norm(305, -1)
    /\ dhtErrorCount = 2

\* C16 (as the specification states it): the groups of a cycle that emits a
\* reading run in the order AcquireRaw, ValidateRaw, ComputeResistance,
\* ComputeConcentration, ReadEnvironmental, ComputeIndex, Emit.
C16_EnvironmentBeforeIndex ==
    (pc = "done" /\ out.kind = "reading") =>
        out.trace = <<"AcquireRaw", "ValidateRaw", "ComputeResistance",
                      "ComputeConcentration", "ReadEnvironmental",
                      "ComputeIndex", "Emit">>

\* C17: when hitungAQI has been called, each of its arguments is 0.1 where
\* hitungKonsentrasi returned the invalid value -1 for the channel and is
\* the returned value for every other channel, no argument is negative, and
\* the cycle emits a reading.
C17_InvalidReplacedByFloor ==
    (pc \in {"ReadEnvironmental", "Emit", "done"} /\ Ran("ComputeIndex")) =>
        /\ \A ch \in 1..3 :
              /\ out.aqiArgs[ch] = IF out.raw[ch] = FromInt(-1)
                                   THEN MIN_PPM_THRESHOLD ELSE out.raw[ch]
              /\ ~FLt(out.aqiArgs[ch], Zero)
        /\ out.aqi = hitungAQI(out.aqiArgs[1], out.aqiArgs[2],
                               out.aqiArgs[3])
        /\ pc = "done" => out.kind = "reading"

\* A cycle in which MQ135 and MQ9 were invalid (baselines 0 and -4) and MQ7
\* was not: the index was computed from 0.1, the MQ7 value and 0.1, and a
\* reading was emitted.
C17_Witness ==
    /\ pc = "done"
    /\ out.kind = "reading"
    /\ out.raw[1] = FromInt(-1)
    /\ out.raw[3] = FromInt(-1)
    /\ out.raw[2] # FromInt(-1)
    /\ out.aqiArgs = <<MIN_PPM_THRESHOLD, out.raw[2], MIN_PPM_THRESHOLD>>
    /\ out.json.ppm_MQ135 = MIN_PPM_THRESHOLD

\* C14 (as the specification states it): while configurationValid is false
\* no step of loop() starts a sampling cycle: none calls sendSensorData and
\* none runs readSensorData, which would show in lastValidTemp,
\* lastValidHumidity or dhtErrorCount.
C14_NoCycleWithoutConfiguration ==
    [][(pc = "loop" /\ ~configurationValid /\ pc' # "off") =>
          /\ pc' # "sendSensorData"
          /\ UNCHANGED <<lastValidTemp, lastValidHumidity,
                         dhtErrorCount>>]_vars

\* The two endless loops of setup().
Halted == pc \in {"halt_eeprom", "halt_nfc"}

\* C15 (as the specification states it): the firmware is in an endless
\* loop only after EEPROM.begin failed.
C15_OnlyStorageFailureHalts == Halted => pc = "halt_eeprom"

\* The bytes of a memory that hold the calibration: the three baselines and
\* the marker.
CalibArea(mem) ==
    [a \in ADDR_RO_MQ135..ADDR_CALIB_FLAG |-> EepromRead(mem, a)]

\* C18: every step of loop() and of sendSensorData other than the body of
\* kalibrasiSensor and tulisEEPROM (a cycle, completed or skipped, a send,
\* a tag's configuration with its save, clearconfig, test, wifi, the button
\* check and the calib command up to the call) leaves the three baselines
\* in memory and the calibration bytes of the EEPROM buffer and of the
\* stored image unchanged.
C18_BaselinesOnlyByCalibration ==
    [][(pc \in {"loop", "sendSensorData"}
          /\ pc' \in {"loop", "sendSensorData", "kalibrasiSensor"}) =>
          /\ UNCHANGED <<Ro_MQ135, Ro_MQ7, Ro_MQ9>>
          /\ CalibArea(flash') = CalibArea(flash)
          /\ CalibArea(eeprom') = CalibArea(eeprom)]_vars

\* A tag's configuration has been accepted and saved and a cycle with a
\* failed DHT read has run since a boot that loaded a stored calibration:
\* the baselines and the stored calibration are still the loaded ones.
C18_Witness ==
    /\ pc = "loop"
    /\ ~calibrated
    /\ lastGood.valid
    /\ configurationValid
    /\ ~configLoadedFromEEPROM
    /\ currentConfig = ConfigFromDoc(DocHttp)
    /\ EepromRead(flash, ADDR_CONFIG_FLAG).raw = CONFIG_MAGIC
    /\ loadConfigFromEEPROM(flash, EmptyConfig).cfg = currentConfig
    /\ dhtErrorCount = 1
    /\ StoredCalibration(flash) = lastGood
    /\ Baselines = <<lastGood.r135, lastGood.r7, lastGood.r9>>
    /\ Ro_MQ135 = Norm(85, -1)

\* acc + Rs_k + Rs_(k+1) + ... + Rs_49 of channel ch, added in this order,
\* in a run with `odd` disturbed samples (a NaN stays a NaN).
RECURSIVE AddSamples(_, _, _, _)
AddSamples(k, ch, odd, acc) ==
    IF k = 50 \/ IsNaN(acc) THEN acc
    ELSE AddSamples(k + 1, ch, odd,
                    FAdd(acc, hitungRs(SampleAt(odd, k)[ch])))

\* The baselines of a run with `odd` disturbed samples, from 50 samples per
\* channel: ((Rs_0 + Rs_1 + ... + Rs_49) / 50) / 9.83.
ExpectedBaselines ==
    [odd \in 0..(MaxOddSamples + 1) |->
        [ch \in 1..3 |->
            FDiv(FDiv(AddSamples(0, ch, odd, Zero), FromInt(50)),
                 Norm(983, -2))]]

\* C19: after a calibration run each baseline is ((the sum of its own
\* channel's 50 resistances) / 50) / 9.83, a finite number greater than 0,
\* and the stored image holds a valid marker and those three baselines.
C19_CalibrationFromFiftySamples ==
    (pc = "loop" /\ calibrated) =>
        /\ \E odd \in 0..MaxOddSamples :
              \A ch \in 1..3 : Baselines[ch] = ExpectedBaselines[odd][ch]
        /\ \A ch \in 1..3 : IsNum(Baselines[ch]) /\ FGt(Baselines[ch], Zero)
        /\ StoredCalibration(flash) =
              [valid |-> TRUE, r135 |-> Ro_MQ135, r7 |-> Ro_MQ7,
               r9 |-> Ro_MQ9]

\* A run with one disturbed sample (raw values 0, 4095, 2000) over a device
\* whose stored baselines were 0, NaN and -4 has ended.
C19_Witness ==
    /\ pc = "loop"
    /\ calibrated
    /\ \A ch \in 1..3 : Baselines[ch] = ExpectedBaselines[1][ch]
    /\ Baselines # <<ExpectedBaselines[0][1], ExpectedBaselines[0][2],
                      ExpectedBaselines[0][3]>>
    /\ lastGood.valid
    /\ EepromGet(flash, ADDR_RO_MQ9) = Ro_MQ9
    /\ loadConfigFromEEPROM(flash, EmptyConfig).cfg.protocol = "HTTP"

\* C20: kalibrasiSensor is entered only from loop(), by the calib command
\* or by the button check with the pin LOW, unchanged since the previous
\* check and the debounce delay elapsed; and outside boot and power loss
\* the baselines change and tulisEEPROM starts only in kalibrasiSensor.
C20_CalibrationOnlyByOperator ==
    [][/\ (pc' = "kalibrasiSensor" /\ pc # "kalibrasiSensor") =>
            /\ pc = "loop"
            /\ \/ out'.by = "calib"
               \/ /\ out'.by = "button"
                  /\ ~out'.reading
                  /\ ~out'.changed
                  /\ out'.elapsed
       /\ (pc # "off" /\ pc' # "off"
             /\ \/ <<Ro_MQ135, Ro_MQ7, Ro_MQ9>>' # <<Ro_MQ135, Ro_MQ7, Ro_MQ9>>
                \/ pc' = "tulisEEPROM" /\ pc # "tulisEEPROM") =>
            pc = "kalibrasiSensor"]_vars

\* kalibrasiSensor entered from the button check on a device without a
\* valid configuration.
C20_Witness ==
    /\ pc = "kalibrasiSensor"
    /\ out.by = "button"
    /\ ~out.reading
    /\ out.elapsed
    /\ ~configurationValid

\* C23: after any sequence of cycles dhtErrorCount is the number of failed
\* environmental reads since the most recent successful one (0 right after
\* a successful one), and lastValidTemp / lastValidHumidity are the pair of
\* the most recent successful read, 25.0 and 50.0 while none has
\* succeeded; a cycle that ended at the raw validation has changed none of
\* the three.
C23_CounterAndPairFollowReads ==
    /\ dhtErrorCount = out.fails
    /\ <<lastValidTemp, lastValidHumidity>> = out.lastOk
    /\ (pc = "done" /\ ~Ran("ReadEnvironmental")) =>
          <<lastValidTemp, lastValidHumidity, dhtErrorCount>> = out.before

\* Two cycles failed after a good read of 30.5 C / 60.2 % and the next
\* cycle ended at the raw validation: the counter is still 2, the pair
\* still that of the good read.
C23_Witness ==
    /\ pc = "done"
    /\ out.kind = "skip"
    /\ ~Ran("ReadEnvironmental")
    /\ dhtErrorCount = 2
    /\ lastValidTemp = Norm(305, -1)
    /\ lastValidHumidity = Norm(602, -1)

\* What hitungKonsentrasi returns for one channel from that channel's raw
\* value, baseline and coefficient pair.
OwnPpm(adcValue, Ro, a, b) == hitungKonsentrasi(hitungRs(adcValue), Ro, a, b)

\* C24: in every cycle that computes concentrations, each channel's ppm is
\* the one computed from its own raw value, its own baseline and its own
\* coefficient pair; so with equal raw values and equal baselines on the
\* three channels the three values are those of one resistance and one
\* baseline under the three coefficient pairs.
C24_EachChannelItsOwn ==
    Ran("ComputeConcentration") =>
        /\ out.raw[1] = OwnPpm(out.adc[1], Ro_MQ135, MQ135_A, MQ135_B)
        /\ out.raw[2] = OwnPpm(out.adc[2], Ro_MQ7, MQ7_A, MQ7_B)
        /\ out.raw[3] = OwnPpm(out.adc[3], Ro_MQ9, MQ9_A, MQ9_B)
        /\ (out.adc[1] = out.adc[2] /\ out.adc[2] = out.adc[3]
              /\ Ro_MQ135 = Ro_MQ7 /\ Ro_MQ7 = Ro_MQ9) =>
              \E Rs \in {hitungRs(out.adc[1])} :
                 out.raw = <<hitungKonsentrasi(Rs, Ro_MQ135, MQ135_A, MQ135_B),
                             hitungKonsentrasi(Rs, Ro_MQ135, MQ7_A, MQ7_B),
                             hitungKonsentrasi(Rs, Ro_MQ135, MQ9_A, MQ9_B)>>

\* Raw value 2000 on every channel and the default baseline 10.0 on every
\* channel: three in-range concentrations, pairwise different.
C24_Witness ==
    /\ Ran("ComputeConcentration")
    /\ out.adc = <<2000, 2000, 2000>>
    /\ Ro_MQ135 = RoDefault /\ Ro_MQ7 = RoDefault /\ Ro_MQ9 = RoDefault
    /\ FGt(out.raw[1], Zero) /\ FGt(out.raw[2], Zero) /\ FGt(out.raw[3], Zero)
    /\ out.raw[1] # out.raw[2]
    /\ out.raw[2] # out.raw[3]
    /\ out.raw[1] # out.raw[3]

\* The addresses at which two memories differ.
Changed(m1, m2) ==
    { a \in 0..(EEPROM_SIZE - 1) : EepromRead(m1, a) # EepromRead(m2, a) }

\* The last address a configuration of MAX_CONFIG_SIZE bytes occupies.
ConfigEnd == ADDR_CONFIG_START + 2 + MAX_CONFIG_SIZE - 1

\* C25: every statement of tulisEEPROM changes only addresses 0..12 of the
\* EEPROM buffer and of the stored image and leaves the stored
\* configuration as it was; saving a configuration (of any size up to
\* MAX_CONFIG_SIZE, every byte of which lands inside the EEPROM) or
\* clearing it changes only addresses 16..1021 and leaves the stored
\* calibration marker and baselines as they were.
C25_DisjointRegions ==
    [][/\ pc = "tulisEEPROM" =>
            /\ Changed(eeprom, eeprom') \subseteq ADDR_RO_MQ135..ADDR_CALIB_FLAG
            /\ Changed(flash, flash') \subseteq ADDR_RO_MQ135..ADDR_CALIB_FLAG
            /\ loadConfigFromEEPROM(flash', EmptyConfig)
                  = loadConfigFromEEPROM(flash, EmptyConfig)
       /\ (pc = "loop" /\ pc' = "loop") =>
            /\ Changed(eeprom, eeprom') \subseteq ADDR_CONFIG_FLAG..ConfigEnd
            /\ Changed(flash, flash') \subseteq ADDR_CONFIG_FLAG..ConfigEnd
            /\ ConfigEnd < EEPROM_SIZE
            /\ StoredCalibration(flash') = StoredCalibration(flash)
            /\ CalibArea(flash') = CalibArea(flash)
            /\ (currentConfig' # currentConfig
                  /\ Len(configToJSON(currentConfig')) <= MAX_CONFIG_SIZE) =>
                  \A i \in 1..Len(configToJSON(currentConfig')) :
                     EepromRead(flash', ADDR_CONFIG_START + 1 + i).raw
                        = configToJSON(currentConfig')[i]]_vars

\* A calibration has been stored and a configuration of MAX_CONFIG_SIZE
\* bytes saved: the image holds the calibration in 0..12 and the
\* configuration up to address 1021.
C25_Witness ==
    /\ pc = "loop"
    /\ calibrated
    /\ StoredCalibration(flash)
         = [valid |-> TRUE, r135 |-> Ro_MQ135, r7 |-> Ro_MQ7, r9 |-> Ro_MQ9]
    /\ currentConfig = ConfigFromDoc(DocSized(MAX_CONFIG_SIZE - HeaderLen))
    /\ loadConfigFromEEPROM(flash, EmptyConfig).cfg = currentConfig
    /\ ConfigEnd \in DOMAIN flash
    /\ ConfigEnd + 1 \notin DOMAIN flash

InRun == pc \in {"kalibrasiSensor", "sampling", "tulisEEPROM"}

\* C21: while a calibration run is in progress no sampling cycle and no
\* second run starts, nothing is sampled, and no command is taken out of
\* the serial receive buffer (a command that arrives stays there until the
\* run has returned); no run starts while a cycle is in progress; and a
\* run starts only from the button check at the top of a pass of loop() or
\* from the serial handler at its end.
C21_CalibrationNeverOverlaps ==
    [][/\ InRun =>
            /\ pc' # "sendSensorData"
            /\ pc' = "kalibrasiSensor" => pc = "kalibrasiSensor"
            /\ UNCHANGED <<lastValidTemp, lastValidHumidity, dhtErrorCount>>
            /\ \/ out'.rx = out.rx
               \/ \E cmd \in SerialCommands : out'.rx = Append(out.rx, cmd)
            /\ out'.lastSensorSend = out.lastSensorSend
       /\ pc = "sendSensorData" =>
            /\ pc' \notin {"kalibrasiSensor", "sampling", "tulisEEPROM"}
            /\ UNCHANGED <<Ro_MQ135, Ro_MQ7, Ro_MQ9, eeprom, flash>>
       /\ (pc' = "kalibrasiSensor" /\ pc # "kalibrasiSensor") =>
            pc \in {"loop", "serial"}]_vars

\* A run started by the button is about to persist its baselines while a
\* calib command that arrived during the run waits in the receive buffer.
C21_Witness ==
    /\ pc = "tulisEEPROM"
    /\ out.ret = "release"
    /\ out.rx = <<"calib">>
    /\ Ro_MQ135 = CalibrationResult[0][1]

\* The step is a tag check that called processNFCTag.
TagProcessed == out'.phase # out.phase /\ out'.call.made

\* C26 (as stated): a tag check that processes a tag whose raw data equals
\* the raw data processed last changes neither the current configuration,
\* nor configurationValid, nor the stored configuration.
C26_SameDataChangesNothing ==
    [][(TagProcessed /\ out'.call.rawData # ""
          /\ out'.call.rawData = out.lastProcessed) =>
          /\ UNCHANGED <<currentConfig, configurationValid>>
          /\ flash' = flash]_vars

\* C26 (amended): processNFCTag is called only by a check that detects a
\* tag when the previous check detected none or another UID, and at most
\* once while the same UID is detected check after check; a call whose raw
\* data is not empty and equals lastRawData as processNFCTag compares it
\* changes neither the current configuration, nor configurationValid, nor
\* the stored image; and lastRawData is the raw data processed last or,
\* after a check that found a different UID, empty.
C26_ProcessedOncePerPresentation ==
    /\ [](/\ out.call.made =>
               (out.call.seen = "" \/ out.call.seen # out.call.uid)
          /\ out.calls <= 1
          /\ out.lastRawData \in {out.lastProcessed, ""})
    /\ [][(TagProcessed /\ out'.call.same) =>
             /\ UNCHANGED <<currentConfig, configurationValid,
                            configLoadedFromEEPROM>>
             /\ flash' = flash
             /\ eeprom' = eeprom]_vars

\* The tag whose SERIAL configuration was accepted has been taken away,
\* the saved configuration cleared, and the same tag presented again: the
\* call found the data it processed last and the device stays without a
\* valid configuration.
C26_Witness ==
    /\ out.call.made
    /\ out.call.same
    /\ out.call.rawData = "serial"
    /\ out.call.seen = ""
    /\ out.calls = 1
    /\ ~configurationValid

\* C29: the deviceIds of the registered devices stay pairwise distinct, and an
\* addDevice call whose deviceId is already registered, or whose deviceId,
\* deviceName or locationName is empty, leaves state.devices, the stored
\* device list and the subscriptions as they were.
DistinctIds(devices) ==
    \A i, j \in 1..Len(devices) :
        devices[i].deviceId = devices[j].deviceId => i = j

RefusedAdd ==
    /\ out'.phase # out.phase
    /\ out'.op.name = "addDevice"
    /\ out'.op.refused # "none"

C29_DistinctIdsAndRefusedAdd ==
    /\ [](DistinctIds(out.devices) /\ out.stored = out.devices)
    /\ [][RefusedAdd => /\ out'.devices = out.devices
                        /\ out'.stored = out.stored
                        /\ out'.subscribed = out.subscribed]_vars

C29_Witness ==
    /\ Len(out.devices) = 2
    /\ out.mqttClient
    /\ out.op = [name |-> "addDevice", refused |-> "duplicate"]

\* C28: while the MQTT client is connected, the subscribed topics are exactly
\* the non-empty mqttTopic values of the registered devices, after any
\* sequence of addDevice, updateDevice and deleteDevice.
RegisteredTopics(devices) ==
    { devices[i].mqttTopic : i \in 1..Len(devices) } \ {""}

C28_SubscriptionsMatchDevices ==
    out.mqttClient => out.subscribed = RegisteredTopics(out.devices)

\* C27: handleMessage changes page state only for the device whose mqttTopic
\* equals the message topic. When no device has that topic, or the payload is
\* not valid JSON, the device list, every lastData and lastUpdate, the
\* sensor-data history and the alert list stay as they were; no exception
\* escapes the handler; and when a device matches, no other device's lastData
\* or lastUpdate changes.
Handled == out'.phase # out.phase /\ out'.op.name = "handleMessage"

Unmatched ==
    \/ out'.op.json = "invalid"
    \/ \A i \in 1..Len(out.devices) : out.devices[i].mqttTopic # out'.op.topic

C27_OnlyTheMatchingDevice ==
    [][Handled =>
         /\ ~out'.escaped
         /\ Len(out'.devices) = Len(out.devices)
         /\ \A i \in 1..Len(out.devices) :
                i # FindTopic(out.devices, out'.op.topic)
                    => out'.devices[i] = out.devices[i]
         /\ Unmatched => /\ out'.devices = out.devices
                         /\ out'.sensorDataHistory = out.sensorDataHistory
                         /\ out'.storedHistory = out.storedHistory
                         /\ out'.alerts = out.alerts]_vars

C27_Witness ==
    /\ out.op = [name |-> "handleMessage", topic |-> "air/a", json |-> "object"]
    /\ out.devices[1].lastUpdate = out.now - 1
    /\ out.devices[2].mqttTopic = "air/a"
    /\ out.devices[2].lastUpdate = 0
    /\ Len(out.alerts) = 1
    /\ Len(out.sensorDataHistory) = 1

\* C30: after any sequence of saveSensorData calls the stored history holds
\* at most 1000 records, they are the most recently saved records in arrival
\* order, and state.sensorDataHistory equals the stored list.
MostRecent(records, n) ==
    IF Len(records) <= n THEN records
    ELSE SubSeq(records, Len(records) - n + 1, Len(records))

C30_HistoryBoundedAndRecent ==
    /\ Len(out.storedHistory) <= 1000
    /\ out.storedHistory = MostRecent(out.accepted, 1000)
    /\ out.sensorDataHistory = out.storedHistory

C30_Witness ==
    /\ Len(out.accepted) = 1002
    /\ out.saves = MaxSaves
    /\ out.arrivals > 1002
    /\ Len(out.storedHistory) = 1000
    /\ out.storedHistory[1] = 3

====
